---- MODULE Spec2Model ----
(***************************************************************************)
(* A model of the MINDMESH autonomous browsing agent                       *)
(* (AutonomousBrowsingAgent: start / stop / loop) and of the server's      *)
(* planner resolution (generateStep, callLocalModel, handleAgentStep).     *)
(*                                                                         *)
(* Strings are sequences of one-character strings so that the code's       *)
(* string functions (toLowerCase, split, includes, endsWith, trim, URL     *)
(* host extraction) are computed, not assumed.                             *)
(***************************************************************************)
EXTENDS Integers, Sequences, FiniteSets, TLC

(***************************************************************************)
(* Bounds of the model                                                     *)
(***************************************************************************)
\* number of start() invocations in one behaviour
MaxStarts == 2

(***************************************************************************)
(* String helpers (JavaScript String methods)                              *)
(***************************************************************************)
UpperChars == <<"A", "B", "C", "D", "E", "F", "G", "H", "I", "J", "K", "L", "M",
                "N", "O", "P", "Q", "R", "S", "T", "U", "V", "W", "X", "Y", "Z">>
LowerChars == <<"a", "b", "c", "d", "e", "f", "g", "h", "i", "j", "k", "l", "m",
                "n", "o", "p", "q", "r", "s", "t", "u", "v", "w", "x", "y", "z">>
DigitChars == <<"0", "1", "2", "3", "4", "5", "6", "7", "8", "9">>

Range(s) == {s[i] : i \in DOMAIN s}

\* String.prototype.toLowerCase, one character
LowerChar(c) ==
    IF \E i \in DOMAIN UpperChars : UpperChars[i] = c
    THEN LowerChars[CHOOSE i \in DOMAIN UpperChars : UpperChars[i] = c]
    ELSE c

\* String.prototype.toLowerCase
ToLower(s) == [i \in DOMAIN s |-> LowerChar(s[i])]

\* the character class [a-z0-9]
IsAlnumLower(c) == c \in Range(LowerChars) \cup Range(DigitChars)

\* the character class \s, as far as the inputs use it
IsSpace(c) == c = " "

\* s.slice(from - 1): the suffix of s that starts at 1-based position from
Drop(s, n) == IF n >= Len(s) THEN <<>> ELSE SubSeq(s, n + 1, Len(s))

\* s.slice(0, n)
Take(s, n) == IF n >= Len(s) THEN s ELSE SubSeq(s, 1, n)

\* s.startsWith(p)
StartsWith(s, p) == Len(p) <= Len(s) /\ SubSeq(s, 1, Len(p)) = p

\* s.endsWith(p)
EndsWith(s, p) == Len(p) <= Len(s) /\ SubSeq(s, Len(s) - Len(p) + 1, Len(s)) = p

\* s.includes(p)
Includes(s, p) ==
    \E i \in 1..(Len(s) - Len(p) + 1) : SubSeq(s, i, i + Len(p) - 1) = p

\* String.prototype.trim
RECURSIVE TrimLeft(_)
TrimLeft(s) == IF s # <<>> /\ IsSpace(s[1]) THEN TrimLeft(Tail(s)) ELSE s
RECURSIVE TrimRight(_)
TrimRight(s) ==
    IF s # <<>> /\ IsSpace(s[Len(s)]) THEN TrimRight(SubSeq(s, 1, Len(s) - 1)) ELSE s
Trim(s) == TrimRight(TrimLeft(s))

\* first position of character c in s, 0 when absent
IndexOfChar(s, c) ==
    IF \E i \in DOMAIN s : s[i] = c
    THEN CHOOSE i \in DOMAIN s : s[i] = c /\ \A j \in 1..(i - 1) : s[j] # c
    ELSE 0

(***************************************************************************)
(* src/unnamed/part_001: pure helpers of the agent                         *)
(***************************************************************************)
\* new URL(url).hostname: scheme ":" ["//"] host, the host ending at the
\* first "/", "?" or "#"; a string with no scheme does not parse and the
\* catch branch yields "".  The URL parser lower-cases the host.
HostEnd(s) ==
    LET stops == {i \in DOMAIN s : s[i] \in {"/", "?", "#"}}
    IN IF stops = {} THEN Len(s)
       ELSE (CHOOSE i \in stops : \A j \in stops : i <= j) - 1

safeDomain(url) ==
    LET colon == IndexOfChar(url, ":")
    IN IF colon <= 1 THEN <<>>
       ELSE IF \E i \in 1..(colon - 1) : ~IsAlnumLower(LowerChar(url[i])) THEN <<>>
       ELSE LET rest  == Drop(url, colon)
                rest2 == IF StartsWith(rest, <<"/", "/">>) THEN Drop(rest, 2) ELSE rest
            IN ToLower(Take(rest2, HostEnd(rest2)))

\* d.trim().toLowerCase().replace(/^\*\./, "")
normalizeDomain(d) ==
    LET t == ToLower(Trim(d))
    IN IF StartsWith(t, <<"*", ".">>) THEN Drop(t, 2) ELSE t

\* variant: every URL passes
isAllowedByAllowlist_Any(url, allowlistDomains) == TRUE

isAllowedByAllowlist(url, allowlistDomains) ==
    IF allowlistDomains = <<>> THEN TRUE
    ELSE LET host == normalizeDomain(safeDomain(url))
         IN IF host = <<>> THEN FALSE
            ELSE \E k \in DOMAIN allowlistDomains :
                    LET d == normalizeDomain(allowlistDomains[k])
                    IN \/ host = d
                       \/ EndsWith(host, <<".">> \o d)
                       \/ Includes(host, d)

\* the number of terms tokenizeGoal keeps: .slice(0, 20)
MaxGoalTerms == 20
\* the shortest term tokenizeGoal keeps: t.length >= 3
MinTermLen == 3

\* goal.split(/[^a-z0-9]+/g): the maximal runs of [a-z0-9]; the empty strings
\* split() yields at the ends are dropped by the length filter anyway
RECURSIVE SplitAlnum(_, _)
SplitAlnum(s, cur) ==
    IF s = <<>> THEN (IF cur = <<>> THEN <<>> ELSE <<cur>>)
    ELSE IF IsAlnumLower(s[1]) THEN SplitAlnum(Tail(s), Append(cur, s[1]))
    ELSE (IF cur = <<>> THEN <<>> ELSE <<cur>>) \o SplitAlnum(Tail(s), <<>>)

tokenizeGoal(goal) ==
    Take(SelectSeq(SplitAlnum(ToLower(goal), <<>>), LAMBDA t : Len(t) >= MinTermLen),
         MaxGoalTerms)

\* scoreSnapshot: the fraction hit / goalTerms.length, kept as the pair
\* <<numerator, denominator>>; 0 (= <<0, 1>>) for an empty term list
SnapshotHay(snap) ==
    ToLower(snap.title \o <<" ">> \o snap.metaDescription \o <<" ">> \o snap.mainText)

\* variant: the haystack leaves out the meta description
scoreSnapshot_NoMeta(goalTerms, snap) ==
    LET hay == ToLower(snap.title \o <<" ">> \o snap.mainText)
    IN IF goalTerms = <<>> THEN <<0, 1>>
       ELSE <<Cardinality({k \in DOMAIN goalTerms : Includes(hay, goalTerms[k])}),
              Len(goalTerms)>>

scoreSnapshot(goalTerms, snap) ==
    IF goalTerms = <<>> THEN <<0, 1>>
    ELSE <<Cardinality({k \in DOMAIN goalTerms : Includes(SnapshotHay(snap), goalTerms[k])}),
           Len(goalTerms)>>

\* the early-stop threshold: relevance >= 0.85, in hundredths
RelevanceThresholdPct == 85
HighRelevance(rel) == 100 * rel[1] >= RelevanceThresholdPct * rel[2]

\* scoreLink, in quarters: 4 per goal term found, 1 for non-empty anchor text
scoreLink(goalTerms, text, href) ==
    LET hay == ToLower(text \o <<" ">> \o href)
    IN 4 * Cardinality({k \in DOMAIN goalTerms : Includes(hay, goalTerms[k])})
       + (IF Len(Trim(text)) > 0 THEN 1 ELSE 0)

(***************************************************************************)
(* The environment of the agent: URLs, pages, goals and stored settings    *)
(***************************************************************************)
\* the URL strings of the model, named by their index
Urls == <<
    <<"h", ":", "/", "/", "a", ".", "i", "o", "/", "1">>,    \* 1  h://a.io/1
    <<"h", ":", "/", "/", "A", ".", "i", "o", "/", "2">>,    \* 2  h://A.io/2
    <<"h", ":", "/", "/", "b", ".", "i", "o">>,              \* 3  h://b.io
    <<"h", ":", "/", "/", "a", ".", "i", "o", "/", "#", "f">>, \* 4  h://a.io/#f
    <<>>                                                    \* 5  ""
>>
\* startUrl undefined
NoUrl == 0

Links1 == << [href |-> 2, text |-> <<"c", "a", "t">>],
             [href |-> 3, text |-> <<"C", "a", "t">>],
             [href |-> 4, text |-> <<"c", "a", "t", " ", "d", "o", "g">>],
             [href |-> 5, text |-> <<"e">>] >>
Links2 == << [href |-> 4, text |-> <<>>],
             [href |-> 3, text |-> <<" ">>],
             [href |-> 1, text |-> <<"d", "o", "g">>] >>

\* the DOM snapshots extractDomSnapshot can return (AgentDomSnapshot)
Pages == <<
    [url |-> 1, title |-> <<"C", "a", "t">>, metaDescription |-> <<>>,
     mainText |-> <<"d", "o">>, links |-> Links1],
    [url |-> 2, title |-> <<"c", "a", "t">>, metaDescription |-> <<"D", "o", "g">>,
     mainText |-> <<"x">>, links |-> Links2]
>>
PageIds == DOMAIN Pages
\* lastSnapshot = null
NoPage == 0

\* the goal strings start() is called with
Goals == <<
    <<"C", "a", "t", " ", "d", "o", "g">>,    \* 1  "Cat dog": terms cat, dog
    <<"g", "o", " ", "o", "n">>               \* 2  "go on": no term of length >= 3
>>
\* status.goal undefined
NoGoal == 0

\* allowlistDomains values
AllowAll == <<>>
AllowA   == << <<" ", "*", ".", "A", ".", "i", "o">> >>

\* budgets values (AgentBudgets)
BudgetScenario == [maxDepth |-> 1, maxActions |-> 5, navigationBudget |-> 1, clickBudget |-> 5]
BudgetNoNav    == [maxDepth |-> 2, maxActions |-> 2, navigationBudget |-> 0, clickBudget |-> 1]
BudgetWide     == [maxDepth |-> 2, maxActions |-> 3, navigationBudget |-> 2, clickBudget |-> 1]
BudgetFew      == [maxDepth |-> 3, maxActions |-> 2, navigationBudget |-> 3, clickBudget |-> 1]

\* what cortexStorage.getAgentSettings() holds (AgentSettings; the time-out,
\* retry and text-length fields are only passed on to collaborators)
Disabled ==
    [enabled |-> FALSE, dryRun |-> FALSE, allowlistDomains |-> AllowAll, budgets |-> BudgetWide]
Scenario ==
    [enabled |-> TRUE, dryRun |-> FALSE, allowlistDomains |-> AllowAll, budgets |-> BudgetScenario]
ScenarioA ==
    [enabled |-> TRUE, dryRun |-> FALSE, allowlistDomains |-> AllowA, budgets |-> BudgetScenario]
WideA ==
    [enabled |-> TRUE, dryRun |-> FALSE, allowlistDomains |-> AllowA, budgets |-> BudgetWide]
DryWide ==
    [enabled |-> TRUE, dryRun |-> TRUE, allowlistDomains |-> AllowAll, budgets |-> BudgetWide]
Few ==
    [enabled |-> TRUE, dryRun |-> FALSE, allowlistDomains |-> AllowAll, budgets |-> BudgetFew]
DryNoNav ==
    [enabled |-> TRUE, dryRun |-> TRUE, allowlistDomains |-> AllowAll, budgets |-> BudgetNoNav]
\* the settings of the runs with concurrent calls
SettingsSet == {Disabled, ScenarioA, DryNoNav}
\* the settings of the runs with one start() call
RunSettingsSet == {Disabled, Scenario, ScenarioA, WideA, Few, DryWide, DryNoNav}

\* the string literals of local-model.ts, as character sequences
Txt == [
    true |-> <<"t", "r", "u", "e">>,
    false |-> <<"f", "a", "l", "s", "e">>,
    null |-> <<"n", "u", "l", "l">>,
    https |-> <<"h", "t", "t", "p", "s", ":", "/", "/">>,
    http |-> <<"h", "t", "t", "p", ":", "/", "/">>,
    search_for |-> <<"s", "e", "a", "r", "c", "h", " ", "f", "o", "r">>,
    find |-> <<"f", "i", "n", "d">>,
    search |-> <<"s", "e", "a", "r", "c", "h">>,
    dot_in |-> <<".", "i", "n">>,
    dot_com |-> <<".", "c", "o", "m">>,
    dot_co_uk |-> <<".", "c", "o", ".", "u", "k">>,
    dot_de |-> <<".", "d", "e">>,
    dot_ca |-> <<".", "c", "a">>,
    amazon |-> <<"a", "m", "a", "z", "o", "n">>,
    under |-> <<"u", "n", "d", "e", "r">>,
    below |-> <<"b", "e", "l", "o", "w">>,
    com |-> <<"c", "o", "m">>,
    in |-> <<"i", "n">>,
    co |-> <<"c", "o">>,
    net |-> <<"n", "e", "t">>,
    org |-> <<"o", "r", "g">>,
    co_uk |-> <<"c", "o", ".", "u", "k">>,
    de |-> <<"d", "e">>,
    ca |-> <<"c", "a">>,
    on |-> <<"o", "n">>,
    done |-> <<"d", "o", "n", "e">>,
    action |-> <<"a", "c", "t", "i", "o", "n">>,
    type |-> <<"t", "y", "p", "e">>,
    data |-> <<"d", "a", "t", "a">>,
    open_tab |-> <<"o", "p", "e", "n", "_", "t", "a", "b">>,
    url |-> <<"u", "r", "l">>,
    click |-> <<"c", "l", "i", "c", "k">>,
    selector |-> <<"s", "e", "l", "e", "c", "t", "o", "r">>,
    finish |-> <<"f", "i", "n", "i", "s", "h">>,
    reason |-> <<"r", "e", "a", "s", "o", "n">>,
    https_www_google_com_search |-> <<"h", "t", "t", "p", "s", ":", "/", "/", "w", "w",
        "w", ".", "g", "o", "o", "g", "l", "e", ".", "c", "o", "m", "/", "s", "e", "a",
        "r", "c", "h", "?", "q", "=">>,
    https_www_amazon_in_s_k |-> <<"h", "t", "t", "p", "s", ":", "/", "/", "w", "w", "w",
        ".", "a", "m", "a", "z", "o", "n", ".", "i", "n", "/", "s", "?", "k", "=">>,
    amazon_dot |-> <<"a", "m", "a", "z", "o", "n", ".">>,
    sp_site_amazon_in_OR_site_am |-> <<" ", "s", "i", "t", "e", ":", "a", "m", "a", "z",
        "o", "n", ".", "i", "n", " ", "O", "R", " ", "s", "i", "t", "e", ":", "a", "m",
        "a", "z", "o", "n", ".", "c", "o", "m">>,
    sp_site_colon |-> <<" ", "s", "i", "t", "e", ":">>,
    deterministic_planner_fallba |-> <<"d", "e", "t", "e", "r", "m", "i", "n", "i", "s",
        "t", "i", "c", "-", "p", "l", "a", "n", "n", "e", "r", ":", " ", "f", "a", "l",
        "l", "b", "a", "c", "k", " ", "f", "a", "i", "l", "e", "d">>,
    goal |-> <<"g", "o", "a", "l">>,
    a_href_not_role |-> <<"a", "[", "h", "r", "e", "f", "]", ":", "n", "o", "t", "(", "[",
        "r", "o", "l", "e", "]", ")">>,
    completed_deterministic_navi |-> <<"c", "o", "m", "p", "l", "e", "t", "e", "d", " ",
        "d", "e", "t", "e", "r", "m", "i", "n", "i", "s", "t", "i", "c", " ", "n", "a",
        "v", "i", "g", "a", "t", "i", "o", "n">>,
    div_data_component_type_s_se |-> <<"d", "i", "v", "[", "d", "a", "t", "a", "-", "c",
        "o", "m", "p", "o", "n", "e", "n", "t", "-", "t", "y", "p", "e", "=", "\"", "s",
        "-", "s", "e", "a", "r", "c", "h", "-", "r", "e", "s", "u", "l", "t", "\"", "]",
        " ", "h", "2", " ", "a">>,
    extract |-> <<"e", "x", "t", "r", "a", "c", "t">>,
    mode |-> <<"m", "o", "d", "e">>,
    text |-> <<"t", "e", "x", "t">>,
    amazon_deterministic_flow_co |-> <<"a", "m", "a", "z", "o", "n", " ", "d", "e", "t",
        "e", "r", "m", "i", "n", "i", "s", "t", "i", "c", " ", "f", "l", "o", "w", " ",
        "c", "o", "m", "p", "l", "e", "t", "e">>,
    sp_under_sp |-> <<" ", "u", "n", "d", "e", "r", " ">>,
    sp_rupees |-> <<" ", "r", "u", "p", "e", "e", "s">>,
    div_data_attrid_div_data_com |-> <<"d", "i", "v", "[", "d", "a", "t", "a", "-", "a",
        "t", "t", "r", "i", "d", "]", ",", " ", "d", "i", "v", "[", "d", "a", "t", "a",
        "-", "c", "o", "m", "p", "o", "n", "e", "n", "t", "-", "t", "y", "p", "e", "=",
        "\"", "s", "-", "s", "e", "a", "r", "c", "h", "-", "r", "e", "s", "u", "l", "t",
        "\"", "]", " ", "h", "2", " ", "a", ",", " ", "a">>,
    search_flow_complete |-> <<"s", "e", "a", "r", "c", "h", " ", "f", "l", "o", "w", " ",
        "c", "o", "m", "p", "l", "e", "t", "e">>,
    object_Object |-> <<"[", "o", "b", "j", "e", "c", "t", " ", "O", "b", "j", "e", "c",
        "t", "]">>,
    local_model_fallback_transfo |-> <<"l", "o", "c", "a", "l", "-", "m", "o", "d", "e",
        "l", "-", "f", "a", "l", "l", "b", "a", "c", "k", ":", " ", "t", "r", "a", "n",
        "s", "f", "o", "r", "m", "e", "r", "s", " ", "n", "o", "t", " ", "a", "v", "a",
        "i", "l", "a", "b", "l", "e", " ", "a", "n", "d", " ", "d", "e", "t", "e", "r",
        "m", "i", "n", "i", "s", "t", "i", "c", " ", "p", "l", "a", "n", "n", "e", "r",
        " ", "f", "a", "i", "l", "e", "d">>,
    find_wireless_mouse_on_amazo |-> <<"f", "i", "n", "d", " ", "w", "i", "r", "e", "l",
        "e", "s", "s", " ", "m", "o", "u", "s", "e", " ", "o", "n", " ", "a", "m", "a",
        "z", "o", "n", ".", "i", "n">>,
    wirelesspct20mouse |-> <<"w", "i", "r", "e", "l", "e", "s", "s", "%", "2", "0", "m",
        "o", "u", "s", "e">>,
    s_search_result |-> <<"s", "-", "s", "e", "a", "r", "c", "h", "-", "r", "e", "s", "u",
        "l", "t">> ]

\* the string literals of routes/agent-step.ts that local-model.ts does not have
RouteTxt == [
    zero |-> <<"0">>,
    minus0 |-> <<"-", "0">>,
    navigate |-> <<"n", "a", "v", "i", "g", "a", "t", "e">>,
    tabId |-> <<"t", "a", "b", "I", "d">>,
    fill_form |-> <<"f", "i", "l", "l", "_", "f", "o", "r", "m">>,
    fields |-> <<"f", "i", "e", "l", "d", "s">>,
    close_tab |-> <<"c", "l", "o", "s", "e", "_", "t", "a", "b">>,
    open |-> <<"o", "p", "e", "n">>,
    deterministic_fallback_no_ac |-> <<"d", "e", "t", "e", "r", "m", "i", "n", "i", "s",
        "t", "i", "c", "-", "f", "a", "l", "l", "b", "a", "c", "k", ":", " ", "n", "o",
        " ", "a", "c", "t", "i", "o", "n", "a", "b", "l", "e", " ", "p", "l", "a", "n">>,
    gemini |-> <<"g", "e", "m", "i", "n", "i">>,
    gpt |-> <<"g", "p", "t">>,
    openai |-> <<"o", "p", "e", "n", "a", "i">>,
    anthropic |-> <<"a", "n", "t", "h", "r", "o", "p", "i", "c">>,
    claude |-> <<"c", "l", "a", "u", "d", "e">>,
    replicate |-> <<"r", "e", "p", "l", "i", "c", "a", "t", "e">>,
    poe |-> <<"p", "o", "e">>,
    perplexity |-> <<"p", "e", "r", "p", "l", "e", "x", "i", "t", "y">>,
    bard |-> <<"b", "a", "r", "d">>,
    chrome |-> <<"c", "h", "r", "o", "m", "e", ":", "/", "/">>,
    chrome_extension |-> <<"c", "h", "r", "o", "m", "e", "-", "e", "x", "t", "e", "n", "s",
        "i", "o", "n", ":", "/", "/">>,
    edge |-> <<"e", "d", "g", "e", ":", "/", "/">>,
    about_colon |-> <<"a", "b", "o", "u", "t", ":">>,
    file |-> <<"f", "i", "l", "e", ":", "/", "/">>,
    undefined |-> <<"u", "n", "d", "e", "f", "i", "n", "e", "d">>,
    Gemini_returned_invalid_resp |-> <<"G", "e", "m", "i", "n", "i", " ", "r", "e", "t",
        "u", "r", "n", "e", "d", " ", "i", "n", "v", "a", "l", "i", "d", " ", "r", "e",
        "s", "p", "o", "n", "s", "e", " ", "s", "h", "a", "p", "e">>,
    Blocked_by_allowlist_sp |-> <<"B", "l", "o", "c", "k", "e", "d", " ", "b", "y", " ",
        "a", "l", "l", "o", "w", "l", "i", "s", "t", ":", " ">>,
    Blocked_restricted_URL_sp |-> <<"B", "l", "o", "c", "k", "e", "d", " ", "r", "e", "s",
        "t", "r", "i", "c", "t", "e", "d", " ", "U", "R", "L", ":", " ">>,
    Agent_step_failed |-> <<"A", "g", "e", "n", "t", " ", "s", "t", "e", "p", " ", "f",
        "a", "i", "l", "e", "d">>,
    Missing_GEMINI_API_KEY_on_se |-> <<"M", "i", "s", "s", "i", "n", "g", " ", "G", "E",
        "M", "I", "N", "I", "_", "A", "P", "I", "_", "K", "E", "Y", " ", "o", "n", " ",
        "s", "e", "r", "v", "e", "r", " ", "f", "o", "r", " ", "r", "e", "m", "o", "t",
        "e", " ", "m", "o", "d", "e", "l", " ", "f", "a", "l", "l", "b", "a", "c", "k">>,
    candidates |-> <<"c", "a", "n", "d", "i", "d", "a", "t", "e", "s">>,
    content |-> <<"c", "o", "n", "t", "e", "n", "t">>,
    parts |-> <<"p", "a", "r", "t", "s">>,
    raw |-> <<"r", "a", "w">>,
    String_must_contain_at_least |-> <<"S", "t", "r", "i", "n", "g", " ", "m", "u", "s",
        "t", " ", "c", "o", "n", "t", "a", "i", "n", " ", "a", "t", " ", "l", "e", "a",
        "s", "t", " ", "1", " ", "c", "h", "a", "r", "a", "c", "t", "e", "r", "(", "s", ")">>,
    Number_must_be_less_than_or |-> <<"N", "u", "m", "b", "e", "r", " ", "m", "u", "s",
        "t", " ", "b", "e", " ", "l", "e", "s", "s", " ", "t", "h", "a", "n", " ", "o",
        "r", " ", "e", "q", "u", "a", "l", " ", "t", "o", " ", "1", "0", "0">>,
    error |-> <<"e", "r", "r", "o", "r">>,
    code |-> <<"c", "o", "d", "e">>,
    URI_malformed |-> <<"U", "R", "I", " ", "m", "a", "l", "f", "o", "r", "m", "e", "d">>,
    fetch_failed |-> <<"f", "e", "t", "c", "h", " ", "f", "a", "i", "l", "e", "d">>,
    Gemini_HTTP_503_Service_Unav |-> <<"G", "e", "m", "i", "n", "i", " ", "H", "T", "T",
        "P", " ", "5", "0", "3", ":", " ", "S", "e", "r", "v", "i", "c", "e", " ", "U",
        "n", "a", "v", "a", "i", "l", "a", "b", "l", "e">>,
    parts_map_is_not_a_function |-> <<"p", "a", "r", "t", "s", ".", "m", "a", "p", " ",
        "i", "s", " ", "n", "o", "t", " ", "a", " ", "f", "u", "n", "c", "t", "i", "o", "n">>,
    Unexpected_token_in_JSON_at |-> <<"U", "n", "e", "x", "p", "e", "c", "t", "e", "d",
        " ", "t", "o", "k", "e", "n", " ", "<", " ", "i", "n", " ", "J", "S", "O", "N",
        " ", "a", "t", " ", "p", "o", "s", "i", "t", "i", "o", "n", " ", "0">> ]

(***************************************************************************)
(* Regular-expression helpers (the patterns of local-model.ts and          *)
(* agent-step.ts are matched by position, greedy parts first)              *)
(***************************************************************************)
MinOf(S) == CHOOSE x \in S : \A y \in S : x <= y
MaxOf(S) == CHOOSE x \in S : \A y \in S : y <= x

\* the end of the longest run of characters with P that starts at i
\* (i - 1 when s[i] has not P)
RunEnd(s, i, P(_)) ==
    CHOOSE e \in (i - 1)..Len(s) :
        /\ \A k \in i..e : P(s[k])
        /\ (e = Len(s) \/ ~P(s[e + 1]))

\* s.startsWith(p, i - 1)
StartsAt(s, i, p) ==
    i >= 1 /\ i + Len(p) - 1 <= Len(s) /\ SubSeq(s, i, i + Len(p) - 1) = p

\* \d, [a-z] under the i flag, \w, [a-z0-9.-] under the i flag, [\w.-], [^\s]
IsDigit(c) == c \in Range(DigitChars)
IsLetter(c) == LowerChar(c) \in Range(LowerChars)
IsWord(c) == IsLetter(c) \/ IsDigit(c) \/ c = "_"
IsUrlHostChar(c) == IsLetter(c) \/ IsDigit(c) \/ c \in {".", "-"}
IsSiteChar(c) == IsWord(c) \/ c \in {".", "-"}
NotSpace(c) == ~IsSpace(c)

\* a code unit that is half of a surrogate pair, standing alone
LoneSurrogate == "\\uD800"

(***************************************************************************)
(* JSON values and JSON.parse                                              *)
(***************************************************************************)
\* A JavaScript value: its kind; the text of a string, number or boolean;
\* the <<key, value>> pairs of an object (array elements have the key <<>>)
JValue(k, a, m) == [kind |-> k, atom |-> a, members |-> m]
JUndefined == JValue("undefined", <<>>, <<>>)
JNull == JValue("null", <<>>, <<>>)
JBool(b) == JValue("boolean", IF b THEN Txt.true ELSE Txt.false, <<>>)
JNum(digits) == JValue("number", digits, <<>>)
JStr(s) == JValue("string", s, <<>>)
JObj(m) == JValue("object", <<>>, m)
JArr(m) == JValue("array", <<>>, m)

\* o[k], undefined when o is no object or has no such key
Prop(o, k) ==
    IF o.kind # "object" \/ ~\E i \in DOMAIN o.members : o.members[i][1] = k
    THEN JUndefined
    ELSE o.members[MaxOf({i \in DOMAIN o.members : o.members[i][1] = k})][2]

\* o[k] = v while parsing: a repeated key keeps its place and takes the new value
SetMember(m, k, v) ==
    IF \E i \in DOMAIN m : m[i][1] = k
    THEN [i \in DOMAIN m |-> IF m[i][1] = k THEN <<k, v>> ELSE m[i]]
    ELSE Append(m, <<k, v>>)

\* Boolean(v)
Truthy(v) ==
    CASE v.kind \in {"undefined", "null"} -> FALSE
      [] v.kind = "boolean" -> v.atom = Txt.true
      [] v.kind = "number" -> v.atom \notin {RouteTxt.zero, RouteTxt.minus0}
      [] v.kind = "string" -> v.atom # <<>>
      [] OTHER -> TRUE

\* JSON white space
IsJsonWs(c) == c \in {" ", "\n", "\t", "\r"}

\* the first position at or after i that holds no white space
SkipWs(s, i) ==
    CHOOSE j \in i..(Len(s) + 1) :
        /\ \A k \in i..(j - 1) : IsJsonWs(s[k])
        /\ (j = Len(s) + 1 \/ ~IsJsonWs(s[j]))

\* the outcome of parsing one value: the value and the position after it
Parsed(v, n) == [ok |-> TRUE, val |-> v, next |-> n]
NoParse == [ok |-> FALSE, val |-> JUndefined, next |-> 0]

\* a string literal that opens at i and closes at j
StringTo(s, i, j) ==
    IF \E k \in (i + 1)..(j - 1) : s[k] \in {"\n", "\t", "\r"} THEN NoParse
    ELSE Parsed(JStr(SubSeq(s, i + 1, j - 1)), j + 1)

\* a string literal that opens at i, given the quotes after it
StringUpTo(s, i, closes) == IF closes = {} THEN NoParse ELSE StringTo(s, i, MinOf(closes))

\* a string literal at i (escapes are not among the modelled texts; a raw
\* control character ends the parse as JSON.parse does)
ParseString(s, i) == StringUpTo(s, i, {j \in (i + 1)..Len(s) : s[j] = "\""})

\* an integer literal at i whose digits start at d
NumberAt(s, i, d) ==
    IF d > Len(s) \/ ~IsDigit(s[d]) THEN NoParse
    ELSE IF s[d] = "0" THEN Parsed(JNum(SubSeq(s, i, d)), d + 1)
    ELSE Parsed(JNum(SubSeq(s, i, RunEnd(s, d, IsDigit))), RunEnd(s, d, IsDigit) + 1)

\* an integer literal at i: -? (0 | [1-9][0-9]*)
ParseNumber(s, i) == NumberAt(s, i, IF s[i] = "-" THEN i + 1 ELSE i)

RECURSIVE ParseValue(_, _)
RECURSIVE ParseMembers(_, _, _)
RECURSIVE ParseElements(_, _, _)

\* an object after a member, e being the position after the white space
\* that follows it
MembersRest(s, acc, e) ==
    IF e > Len(s) THEN NoParse
    ELSE IF s[e] = "}" THEN Parsed(JObj(acc), e + 1)
    ELSE IF s[e] = "," THEN ParseMembers(s, SkipWs(s, e + 1), acc)
    ELSE NoParse

\* a member whose key is parsed and whose value is parsed as v
MemberValue(s, acc, key, v) ==
    IF ~v.ok THEN NoParse
    ELSE MembersRest(s, SetMember(acc, key.val.atom, v.val), SkipWs(s, v.next))

\* a member whose key is parsed, colon being the position after the white
\* space that follows the key
MemberColon(s, acc, key, colon) ==
    IF colon > Len(s) \/ s[colon] # ":" THEN NoParse
    ELSE MemberValue(s, acc, key, ParseValue(s, SkipWs(s, colon + 1)))

\* a member whose key is parsed as key
MemberKey(s, acc, key) ==
    IF ~key.ok THEN NoParse ELSE MemberColon(s, acc, key, SkipWs(s, key.next))

\* the members of an object from the key at i on, up to the closing brace
ParseMembers(s, i, acc) ==
    IF i > Len(s) \/ s[i] # "\"" THEN NoParse ELSE MemberKey(s, acc, ParseString(s, i))

\* an array after an element, e being the position after the white space
\* that follows it
ElementsRest(s, acc, e) ==
    IF e > Len(s) THEN NoParse
    ELSE IF s[e] = "]" THEN Parsed(JArr(acc), e + 1)
    ELSE IF s[e] = "," THEN ParseElements(s, SkipWs(s, e + 1), acc)
    ELSE NoParse

\* an element parsed as v
ElementValue(s, acc, v) ==
    IF ~v.ok THEN NoParse
    ELSE ElementsRest(s, Append(acc, <<<<>>, v.val>>), SkipWs(s, v.next))

\* the elements of an array from the value at i on, up to the closing bracket
ParseElements(s, i, acc) == ElementValue(s, acc, ParseValue(s, i))

\* an object whose brace is read, j being the position after the white space
\* that follows it
ObjectFrom(s, j) ==
    IF j <= Len(s) /\ s[j] = "}" THEN Parsed(JObj(<<>>), j + 1)
    ELSE ParseMembers(s, j, <<>>)

\* an array whose bracket is read, likewise
ArrayFrom(s, j) ==
    IF j <= Len(s) /\ s[j] = "]" THEN Parsed(JArr(<<>>), j + 1)
    ELSE ParseElements(s, j, <<>>)

\* one JSON value at i
ParseValue(s, i) ==
    IF i > Len(s) THEN NoParse
    ELSE IF s[i] = "{" THEN ObjectFrom(s, SkipWs(s, i + 1))
    ELSE IF s[i] = "[" THEN ArrayFrom(s, SkipWs(s, i + 1))
    ELSE IF s[i] = "\"" THEN ParseString(s, i)
    ELSE IF s[i] = "-" \/ IsDigit(s[i]) THEN ParseNumber(s, i)
    ELSE IF StartsAt(s, i, Txt.true) THEN Parsed(JBool(TRUE), i + 4)
    ELSE IF StartsAt(s, i, Txt.false) THEN Parsed(JBool(FALSE), i + 5)
    ELSE IF StartsAt(s, i, Txt.null) THEN Parsed(JNull, i + 4)
    ELSE NoParse

\* the value r parsed from the start of text, when only white space follows it
WholeText(text, r) ==
    IF r.ok /\ SkipWs(text, r.next) = Len(text) + 1 THEN r ELSE NoParse

\* JSON.parse(text): one value with nothing but white space around it;
\* ok = FALSE stands for the SyntaxError
JSONParse(text) == WholeText(text, ParseValue(text, SkipWs(text, 1)))

\* from the brace at open to the last of the closing braces after it
ObjectTo(text, open, closes) ==
    IF closes = {} THEN <<>> ELSE SubSeq(text, open, MaxOf(closes))

\* the match, given the opening braces of the text
ObjectSpan(text, opens) ==
    IF opens = {} THEN <<>>
    ELSE ObjectTo(text, MinOf(opens),
                  {j \in DOMAIN text : j > MinOf(opens) /\ text[j] = "}"})

\* text.match(/(\{[\s\S]*\})/): from the first "{" to the last "}" after it,
\* <<>> when there is no match
ExtractObject(text) == ObjectSpan(text, {i \in DOMAIN text : text[i] = "{"})

\* encodeURIComponent: the ASCII characters outside A-Z a-z 0-9 - _ . ! ~ * ' ( )
\* (the grave accent left out) and their escapes; a lone surrogate raises URIError (ok = FALSE)
EscapedChars == <<" ", "\"", "#", "$", "%", "&", "+", ",", "/", ":", ";", "<", "=",
                  ">", "?", "@", "[", "\\", "]", "^", "{", "|", "}">>
Escapes == <<
    <<"%", "2", "0">>, <<"%", "2", "2">>, <<"%", "2", "3">>, <<"%", "2", "4">>,
    <<"%", "2", "5">>, <<"%", "2", "6">>, <<"%", "2", "B">>, <<"%", "2", "C">>,
    <<"%", "2", "F">>, <<"%", "3", "A">>, <<"%", "3", "B">>, <<"%", "3", "C">>,
    <<"%", "3", "D">>, <<"%", "3", "E">>, <<"%", "3", "F">>, <<"%", "4", "0">>,
    <<"%", "5", "B">>, <<"%", "5", "C">>, <<"%", "5", "D">>, <<"%", "5", "E">>,
    <<"%", "7", "B">>, <<"%", "7", "C">>, <<"%", "7", "D">> >>

EncodeChar(c) ==
    IF \E i \in DOMAIN EscapedChars : EscapedChars[i] = c
    THEN Escapes[CHOOSE i \in DOMAIN EscapedChars : EscapedChars[i] = c]
    ELSE <<c>>

RECURSIVE EncodeAll(_)
EncodeAll(s) == IF s = <<>> THEN <<>> ELSE EncodeChar(s[1]) \o EncodeAll(Tail(s))

\* the outcome of a call: a value, or an exception
Returns(v) == [threw |-> FALSE, val |-> v]
Throws == [threw |-> TRUE, val |-> JUndefined]

encodeURIComponent(s) ==
    IF \E i \in DOMAIN s : s[i] = LoneSurrogate THEN [threw |-> TRUE, val |-> <<>>]
    ELSE [threw |-> FALSE, val |-> EncodeAll(s)]

(***************************************************************************)
(* src/server/local-model.ts: deterministicPlanner                         *)
(***************************************************************************)
\* e when the run that ends at e is not empty (it starts at from), else 0
AtLeast(e, from) == IF e >= from THEN e ELSE 0
\* the first of two match ends that is a match
FirstPositive(a, b) == IF a > 0 THEN a ELSE b
\* the largest element, 0 for the empty set
MaxOrZero(S) == IF S = {} THEN 0 ELSE MaxOf(S)
\* s.slice(g[1] - 1, g[2])
Slice(s, g) == SubSeq(s, g[1], g[2])
\* the group of a pattern that does not match
NoGroup == <<0, 0>>

\* the length of a leading https?:\/\/ at i (i flag), 0 when there is none
UrlSchemeLen(s, i) ==
    IF StartsAt(ToLower(s), i, Txt.https) THEN 8
    ELSE IF StartsAt(ToLower(s), i, Txt.http) THEN 7
    ELSE 0

\* [^\s]+ after a scheme of n characters at i: the end of the match, 0
\* without a scheme or without a character after it
UrlSchemeRest(s, i, n) ==
    IF n > 0 THEN AtLeast(RunEnd(s, i + n, NotSpace), i + n) ELSE 0

\* urlRegex, first alternative at i: https?:\/\/[^\s]+ ; the end of the
\* match, 0 when it does not match
UrlAltScheme(s, i) == UrlSchemeRest(s, i, UrlSchemeLen(s, i))

\* the dots of the run [a-z0-9.-]+ at i that two letters follow
UrlHostDots(s, i) ==
    {d \in (i + 1)..RunEnd(s, i, IsUrlHostChar) :
        s[d] = "." /\ RunEnd(s, d + 1, IsLetter) >= d + 2}

\* (?:\/[^\s]*)? after the letters that end at e
UrlPathEnd(s, e) ==
    IF e < Len(s) /\ s[e + 1] = "/" THEN RunEnd(s, e + 2, NotSpace) ELSE e

\* the end of the host alternative, given the dots two letters follow
UrlHostEnd(s, dots) ==
    IF dots = {} THEN 0 ELSE UrlPathEnd(s, RunEnd(s, MaxOf(dots) + 1, IsLetter))

\* urlRegex, second alternative at i:
\* (?:www\.)?[a-z0-9.-]+\.[a-z]{2,}(?:\/[^\s]*)? ; the greedy [a-z0-9.-]+
\* gives characters back down to the last dot that two letters follow
UrlAltHost(s, i) == UrlHostEnd(s, UrlHostDots(s, i))

\* urlRegex at i: the end of the match of the first alternative that matches
UrlEndAt(s, i) == FirstPositive(UrlAltScheme(s, i), UrlAltHost(s, i))

\* the match of urlRegex that starts leftmost, given the starts of matches
UrlFrom(s, starts) ==
    IF starts = {} THEN <<>> ELSE SubSeq(s, MinOf(starts), UrlEndAt(s, MinOf(starts)))

\* goalRaw.match(urlRegex)[0]: the leftmost match, <<>> for null
UrlMatch(s) == UrlFrom(s, {i \in DOMAIN s : UrlEndAt(s, i) > 0})

\* /<w>\s+(.{2,})/ at i for one alternative w of (?:search for|find|search):
\* where group 1 starts, 0 when there is no match; the greedy \s+ gives
\* spaces back until two characters are left for the group
SearchGroupAt(s, i, w) ==
    IF ~StartsAt(s, i, w) THEN 0
    ELSE MaxOrZero({g \in (i + Len(w) + 1)..(RunEnd(s, i + Len(w), IsSpace) + 1) :
                       Len(s) - g + 1 >= 2})

\* /(?:search for|find|search)\s+(.{2,})/ at i: where group 1 starts with
\* the first alternative that matches, 0 when none does
SearchAt(s, i) ==
    FirstPositive(SearchGroupAt(s, i, Txt.search_for),
                  FirstPositive(SearchGroupAt(s, i, Txt.find),
                                SearchGroupAt(s, i, Txt.search)))

\* group 1 of the leftmost match, given the starts of matches
SearchFrom(s, hits) ==
    IF hits = {} THEN <<>> ELSE SubSeq(s, SearchAt(s, MinOf(hits)), Len(s))

\* goal.match(/(?:search for|find|search)\s+(.{2,})/i)[1], <<>> for no match
searchMatch(s) == SearchFrom(s, {i \in DOMAIN s : SearchAt(s, i) > 0})

\* the optional suffixes of amazon in amazonMatch
AmazonSuffixes == <<Txt.dot_in, Txt.dot_com, Txt.dot_co_uk, Txt.dot_de, Txt.dot_ca, <<>>>>

\* \b between s[e] and what follows it
WordBoundary(s, e) == IsWord(s[e]) # (e < Len(s) /\ IsWord(s[e + 1]))

\* goal.match(/(?:on\s+)?(amazon(?:\.in|\.com|\.co\.uk|\.de|\.ca)?)\b/i) is
\* not null (the optional "on " prefix does not decide whether it matches)
amazonMatch(s) ==
    \E i \in DOMAIN s, k \in DOMAIN AmazonSuffixes :
        /\ StartsAt(ToLower(s), i, Txt.amazon \o AmazonSuffixes[k])
        /\ WordBoundary(s, i + 5 + Len(AmazonSuffixes[k]))

\* (?:,\d{3})* after position e: the end of the last group
RECURSIVE ThousandsEnd(_, _)
ThousandsEnd(s, e) ==
    IF e + 4 <= Len(s) /\ s[e + 1] = "," /\ \A k \in (e + 2)..(e + 4) : IsDigit(s[k])
    THEN ThousandsEnd(s, e + 4) ELSE e

\* (\d{2,}(?:,\d{3})*) at n, where the digits end at e: <<start, end>> of
\* the group
PriceDigits(s, n, e) == IF e >= n + 1 THEN <<n, ThousandsEnd(s, e)>> ELSE NoGroup

\* \s+(\d{2,}(?:,\d{3})*) after (?:under|below) at w, n being the first
\* position after the spaces
PriceAmount(s, w, n) ==
    IF n > w + 5 THEN PriceDigits(s, n, RunEnd(s, n, IsDigit)) ELSE NoGroup

\* (?:under|below)\s+(\d{2,}(?:,\d{3})*) at w, after the spaces from p on
PriceWord(s, p, w) ==
    IF w > p /\ (StartsAt(s, w, Txt.under) \/ StartsAt(s, w, Txt.below))
    THEN PriceAmount(s, w, RunEnd(s, w + 5, IsSpace) + 1)
    ELSE NoGroup

\* \s+(?:under|below)\s+(\d{2,}(?:,\d{3})*) at p: <<start, end>> of the
\* price group, <<0, 0>> when it does not match
PriceTailAt(s, p) == PriceWord(s, p, RunEnd(s, p, IsSpace) + 1)

\* where the tail of priceMatch can start when group 1 starts at i
PriceTails(s, i) == {p \in (i + 3)..Len(s) : PriceTailAt(s, p)[1] > 0}

\* groups 1 and 2 of the match that starts at i and whose tail starts at p
PriceGroups(s, i, p) ==
    [found |-> TRUE, item |-> SubSeq(s, i, p - 1), price |-> Slice(s, PriceTailAt(s, p))]

\* the groups of the leftmost match, given the starts of matches
PriceFrom(s, hits) ==
    IF hits = {} THEN [found |-> FALSE, item |-> <<>>, price |-> <<>>]
    ELSE PriceGroups(s, MinOf(hits), MinOf(PriceTails(s, MinOf(hits))))

\* goal.match(/(.{3,}?)\s+(?:under|below)\s+(\d{2,}(?:,\d{3})*)(?:\s*(rupees|inr|rs)?)?/i):
\* groups 1 and 2 of the leftmost match, the lazy group 1 as short as it can be
priceMatch(s) == PriceFrom(s, {i \in DOMAIN s : PriceTails(s, i) # {}})

\* the alternatives of (?:com|in|co|net|org|co\.uk|de|ca), in the order tried
SiteTlds == <<Txt.com, Txt.in, Txt.co, Txt.net, Txt.org, Txt.co_uk, Txt.de, Txt.ca>>

\* the alternatives that match after the dot at d
SiteTldAt(s, d) == {k \in DOMAIN SiteTlds : StartsAt(ToLower(s), d + 1, SiteTlds[k])}

\* the dots of the run [\w.-]+ at g that a listed suffix follows
SiteDots(s, g) ==
    {d \in (g + 1)..RunEnd(s, g, IsSiteChar) : s[d] = "." /\ SiteTldAt(s, d) # {}}

\* group 1 from g on, given those dots: the greedy [\w.-]+ gives characters
\* back down to the last of them, and the first alternative that matches
\* there ends the group
SiteGroupEnd(s, g, dots) ==
    IF dots = {} THEN NoGroup
    ELSE <<g, MaxOf(dots) + Len(SiteTlds[MinOf(SiteTldAt(s, MaxOf(dots)))])>>

\* \s+([\w.-]+\.(?:...)) after the "on" at i, g being the first position
\* after the spaces
SiteGroup(s, i, g) == IF g > i + 2 THEN SiteGroupEnd(s, g, SiteDots(s, g)) ELSE NoGroup

\* /on\s+([\w.-]+\.(?:com|in|co|net|org|co\.uk|de|ca))/i at i: <<start, end>>
\* of group 1, <<0, 0>> when it does not match
SiteGroupAt(s, i) ==
    IF StartsAt(ToLower(s), i, Txt.on) THEN SiteGroup(s, i, RunEnd(s, i + 2, IsSpace) + 1)
    ELSE NoGroup

\* group 1 of the leftmost match, given the starts of matches
SiteFrom(s, hits) == IF hits = {} THEN <<>> ELSE Slice(s, SiteGroupAt(s, MinOf(hits)))

\* goalText.match(/on\s+([\w.-]+\.(?:com|in|co|net|org|co\.uk|de|ca))/i)[1],
\* <<>> for no match
siteMatch(s) == SiteFrom(s, {i \in DOMAIN s : SiteGroupAt(s, i)[1] > 0})

\* s.replace(/,/g, "")
RemoveCommas(s) == SelectSeq(s, LAMBDA c : c # ",")

\* the planner's answer { done, action: { type, data } }
ModelStep(done, type, data) ==
    JObj(<< <<Txt.done, JBool(done)>>,
            <<Txt.action, JObj(<< <<Txt.type, JStr(type)>>, <<Txt.data, JObj(data)>> >>)>> >>)

OpenTab(url) == ModelStep(FALSE, Txt.open_tab, << <<Txt.url, JStr(url)>> >>)
Click(selector) == ModelStep(FALSE, Txt.click, << <<Txt.selector, JStr(selector)>> >>)
Finish(reason, more) ==
    ModelStep(TRUE, Txt.finish, << <<Txt.reason, JStr(reason)>> >> \o more)

\* a URL made of a prefix and an encoded component e, or the URIError that
\* encodeURIComponent raised
UrlWith(prefix, e) == [threw |-> e.threw, val |-> prefix \o e.val]

\* makeGoogleSearch(q, siteHint) and makeAmazonSearch(q): the URL, or the
\* URIError of encodeURIComponent
makeGoogleSearch(q, siteHint) ==
    UrlWith(Txt.https_www_google_com_search,
            encodeURIComponent(q \o (IF siteHint # <<>> THEN <<" ">> \o siteHint ELSE <<>>)))

makeAmazonSearch(q) == UrlWith(Txt.https_www_amazon_in_s_k, encodeURIComponent(q))

\* an open_tab to a built URL, or the exception raised while building it
OpenBuilt(u) == IF u.threw THEN Throws ELSE Returns(OpenTab(u.val))

\* siteHint, site being siteMatch[1].toLowerCase() (<<>> for no match)
SiteHint(goalText, site) ==
    IF site = <<>> THEN <<>>
    ELSE IF \/ site = Txt.amazon \/ StartsWith(site, Txt.amazon_dot)
            \/ Includes(ToLower(goalText), Txt.amazon)
    THEN Txt.sp_site_amazon_in_OR_site_am
    ELSE Txt.sp_site_colon \o site

\* the try block of the last branch once the query is encoded, and its catch
\* block for the URIError
FallbackStep(goalArg, query) ==
    IF query.threw
    THEN Finish(Txt.deterministic_planner_fallba, << <<Txt.goal, JStr(goalArg)>> >>)
    ELSE OpenTab(Txt.https_www_google_com_search \o query.val)

\* the last branch for the trimmed goal
FallbackSearch(goalArg, goalText) ==
    FallbackStep(goalArg,
                 encodeURIComponent(goalText
                                    \o SiteHint(goalText, ToLower(siteMatch(goalText)))))

\* the last branch of deterministicPlanner: a Google search for the goal, with
\* a site: hint when the goal names a site; its own catch turns a URIError
\* into a finish
PlannerFallback(goalArg) == FallbackSearch(goalArg, Trim(goalArg))

\* variant: the match is used as it is found
WithScheme_AsFound(urlFound) == urlFound

\* url, urlFound[0] with https:// put before it when it has no scheme
WithScheme(urlFound) ==
    IF UrlSchemeLen(urlFound, 1) > 0 THEN urlFound ELSE Txt.https \o urlFound

\* "If a plain URL/hostname is present"
UrlFlow(url, stepNum) ==
    IF stepNum = 0 THEN OpenTab(url)
    ELSE IF stepNum = 1 THEN Click(Txt.a_href_not_role)
    ELSE Finish(Txt.completed_deterministic_navi, << <<Txt.url, JStr(url)>> >>)

\* "AMAZON SEARCH FLOW", query being searchMatch[1].trim()
AmazonFlow(query, stepNum) ==
    IF stepNum = 0 THEN OpenBuilt(makeAmazonSearch(query))
    ELSE IF stepNum = 1
    THEN Returns(Click(Txt.div_data_component_type_s_se))
    ELSE IF stepNum = 2
    THEN Returns(ModelStep(FALSE, Txt.extract, << <<Txt.mode, JStr(Txt.text)>> >>))
    ELSE Returns(Finish(Txt.amazon_deterministic_flow_co, <<>>))

\* "Generic search with price handling"
PriceFlow(price, stepNum) ==
    IF stepNum = 0
    THEN OpenBuilt(makeGoogleSearch(Trim(price.item) \o Txt.sp_under_sp
                                    \o RemoveCommas(price.price) \o Txt.sp_rupees, <<>>))
    ELSE IF stepNum = 1
    THEN Returns(Click(Txt.div_data_attrid_div_data_com))
    ELSE Returns(Finish(Txt.search_flow_complete, <<>>))

\* deterministicPlanner after its patterns are matched
PlannerFlows(goalArg, stepNum, urlFound, search, amazon, price) ==
    IF urlFound # <<>> THEN Returns(UrlFlow(WithScheme(urlFound), stepNum))
    ELSE IF search # <<>> /\ amazon THEN AmazonFlow(Trim(search), stepNum)
    ELSE IF price.found THEN PriceFlow(price, stepNum)
    ELSE Returns(PlannerFallback(goalArg))

\* deterministicPlanner for the trimmed goal and its lower-case form
PlannerMatches(goalArg, stepNum, goalRaw, goal) ==
    PlannerFlows(goalArg, stepNum, UrlMatch(goalRaw), searchMatch(goal),
                 amazonMatch(goal), priceMatch(goal))

\* deterministicPlanner(params): the step it returns, or the exception that
\* leaves it (a URIError raised outside its try block)
deterministicPlanner(goalArg, stepNum) ==
    PlannerMatches(goalArg, stepNum, Trim(goalArg), ToLower(Trim(goalArg)))

(***************************************************************************)
(* src/server/routes/agent-step.ts: the schemas                            *)
(***************************************************************************)
\* z.string().min(1), and the .optional() forms
NonEmptyString(v) == v.kind = "string" /\ v.atom # <<>>
OptionalOf(v, k) == v.kind \in {"undefined", k}
OptionalNonEmptyString(v) == v.kind = "undefined" \/ NonEmptyString(v)

\* z.record(z.string()) with at least one entry
StringRecord(v) ==
    /\ v.kind = "object"
    /\ v.members # <<>>
    /\ \A i \in DOMAIN v.members : v.members[i][2].kind = "string"

\* the variant of the discriminated union that type selects, its data checked
ActionVariant(type, data) ==
    /\ type.kind = "string"
    /\ data.kind = "object"
    /\ \/ /\ type.atom = Txt.open_tab
          /\ NonEmptyString(Prop(data, Txt.url))
       \/ /\ type.atom = RouteTxt.navigate
          /\ NonEmptyString(Prop(data, Txt.url))
          /\ OptionalOf(Prop(data, RouteTxt.tabId), "number")
       \/ /\ type.atom = Txt.click
          /\ OptionalOf(Prop(data, RouteTxt.tabId), "number")
          /\ OptionalNonEmptyString(Prop(data, Txt.selector))
          /\ OptionalNonEmptyString(Prop(data, Txt.text))
          /\ (Truthy(Prop(data, Txt.selector)) \/ Truthy(Prop(data, Txt.text)))
       \/ /\ type.atom = RouteTxt.fill_form
          /\ OptionalOf(Prop(data, RouteTxt.tabId), "number")
          /\ StringRecord(Prop(data, RouteTxt.fields))
       \/ /\ type.atom = Txt.extract
          /\ OptionalOf(Prop(data, Txt.mode), "string")
          /\ OptionalOf(Prop(data, Txt.selector), "string")
       \/ /\ type.atom = RouteTxt.close_tab
          /\ Prop(data, RouteTxt.tabId).kind = "number"
       \/ /\ type.atom = Txt.finish
          /\ OptionalOf(Prop(data, Txt.reason), "string")

\* ActionSchema.safeParse(a).success
ActionSchema(a) ==
    a.kind = "object" /\ ActionVariant(Prop(a, Txt.type), Prop(a, Txt.data))

\* ModelStepSchema.safeParse(v).success
ModelStepSchema(v) ==
    /\ v.kind = "object"
    /\ OptionalOf(Prop(v, Txt.done), "boolean")
    /\ (Prop(v, Txt.action).kind = "undefined" \/ ActionSchema(Prop(v, Txt.action)))
    /\ OptionalOf(Prop(v, Txt.reason), "string")

(***************************************************************************)
(* src/server/routes/agent-step.ts: the fallback planner of callLocalModel *)
(***************************************************************************)
\* ([\w.-]+) at hs: <<start, end>> of group 2 (the host)
OpenHostFrom(s, hs) ==
    IF RunEnd(s, hs, IsSiteChar) >= hs THEN <<hs, RunEnd(s, hs, IsSiteChar)>> ELSE NoGroup

\* where group 2 starts: after the optional scheme of n characters at h,
\* which is taken when a host character follows it
OpenHostStart(s, h, n) ==
    IF n > 0 /\ RunEnd(s, h + n, IsSiteChar) >= h + n THEN h + n ELSE h

\* \s+(https?:\/\/)?([\w.-]+) after the "open" at i, h being the first
\* position after the spaces
OpenHost(s, i, h) ==
    IF h > i + 4 THEN OpenHostFrom(s, OpenHostStart(s, h, UrlSchemeLen(s, h))) ELSE NoGroup

\* /open\s+(https?:\/\/)?([\w.-]+)(\/.+)?/i at i: <<start, end>> of group 2
\* (the host), <<0, 0>> when it does not match
OpenHostAt(s, i) ==
    IF StartsAt(ToLower(s), i, RouteTxt.open) THEN OpenHost(s, i, RunEnd(s, i + 4, IsSpace) + 1)
    ELSE NoGroup

\* groups 2 and 3 of a match whose host is at g: (\/.+)? takes the rest of
\* the text when a slash and one more character follow the host
OpenGroups(s, g) ==
    [found |-> TRUE, host |-> Slice(s, g),
     path |-> IF g[2] + 2 <= Len(s) /\ s[g[2] + 1] = "/"
              THEN SubSeq(s, g[2] + 1, Len(s)) ELSE <<>>]

\* the groups of the leftmost match, given the starts of matches
OpenFrom(s, hits) ==
    IF hits = {} THEN [found |-> FALSE, host |-> <<>>, path |-> <<>>]
    ELSE OpenGroups(s, OpenHostAt(s, MinOf(hits)))

\* lower.match(/open\s+(https?:\/\/)?([\w.-]+)(\/.+)?/i): groups 2 and 3
openMatch(s) == OpenFrom(s, {i \in DOMAIN s : OpenHostAt(s, i)[1] > 0})

\* `https://www.google.com/search?q=${encodeURIComponent(q)}`
GoogleSearchUrl(q) == UrlWith(Txt.https_www_google_com_search, encodeURIComponent(q))

\* the price branch once item is encoded: q is encoded in turn
PriceSearch(item, price) ==
    IF item.threw THEN Throws
    ELSE OpenBuilt(GoogleSearchUrl(item.val \o Txt.sp_under_sp \o RemoveCommas(price.price)
                                   \o Txt.sp_rupees))

\* the fallback planner of callLocalModel after its patterns are matched
FallbackFlows(goal, search, price, open) ==
    IF search # <<>> THEN OpenBuilt(GoogleSearchUrl(Trim(search)))
    ELSE IF price.found THEN PriceSearch(encodeURIComponent(Trim(price.item)), price)
    ELSE IF open.found THEN Returns(OpenTab(Txt.https \o open.host \o open.path))
    ELSE Returns(Finish(RouteTxt.deterministic_fallback_no_ac,
                        << <<Txt.goal, JStr(goal)>> >>))

\* the fallback planner for the trimmed goal and its lower-case form
FallbackMatches(goal, lower) ==
    FallbackFlows(goal, searchMatch(lower), priceMatch(lower), openMatch(lower))

\* callLocalModel, from "Deterministic planner fallback" on: the step it
\* returns, or the URIError that leaves callLocalModel
LocalFallback(goalArg) == FallbackMatches(Trim(goalArg), ToLower(Trim(goalArg)))

(***************************************************************************)
(* src/server/local-model.ts: generateStep                                 *)
(***************************************************************************)
\* the model generateStep falls back to: params.model || "gpt2"
DefaultModel == "gpt2"
\* generationPipeline = null
NoPipeline == "null"

\* o.generated_text || o?.text || ""
GenerationText(o) == IF o.generated_text # <<>> THEN o.generated_text ELSE o.text

\* texts.join("\n")
RECURSIVE JoinLines(_)
JoinLines(texts) ==
    IF texts = <<>> THEN <<>>
    ELSE IF Len(texts) = 1 THEN texts[1]
    ELSE texts[1] \o <<"\n">> \o JoinLines(Tail(texts))

\* the text generateStep reads from the pipeline's output: the joined
\* generations of an array, else out.generated_text || out.text || String(out)
OutputText(out) ==
    IF out.array THEN JoinLines([i \in DOMAIN out.gens |-> GenerationText(out.gens[i])])
    ELSE IF GenerationText(out.gens[1]) # <<>> THEN GenerationText(out.gens[1])
    ELSE Txt.object_Object

\* the fallback of the last catch block of generateStep
SafeFinish ==
    ModelStep(TRUE, Txt.finish,
              << <<Txt.reason, JStr(Txt.local_model_fallback_transfo)>> >>)

\* the step the planner returned, or the safe finish when it threw
OrSafeFinish(planned) == IF planned.threw THEN SafeFinish ELSE planned.val

\* generateStep, its outer catch block: the deterministic planner, and the
\* safe finish when that throws
PlannerOrFinish(goalArg, stepNum) == OrSafeFinish(deterministicPlanner(goalArg, stepNum))

\* a parsed value as an answer; found = FALSE for a SyntaxError
ParsedOrNone(p) ==
    IF p.ok THEN [found |-> TRUE, val |-> p.val] ELSE [found |-> FALSE, val |-> JUndefined]

\* the inner catch block up to the planner: JSON.parse on the first {...}
\* of the text, m being that match (<<>> for none)
ExtractedJson(m) ==
    IF m # <<>> THEN ParsedOrNone(JSONParse(m)) ELSE [found |-> FALSE, val |-> JUndefined]

\* p being JSON.parse(text): its value, else what the inner catch block parses
FirstParsed(p, text) ==
    IF p.ok THEN ParsedOrNone(p) ELSE ExtractedJson(ExtractObject(text))

\* generateStep, "Try to parse JSON from the model output": the value of
\* JSON.parse(text), else of JSON.parse on the first {...} in the text;
\* found = FALSE when neither parses
ModelJson(text) == FirstParsed(JSONParse(text), text)

\* the parsed value, or the planner's answer when nothing was parsed
ParsedOrPlanned(json, planned) == IF json.found THEN json.val ELSE planned

\* generateStep, from the pipeline's text on: the parsed value, or the
\* deterministic planner's answer when nothing parses
ParseModelText(text, goalArg, stepNum) ==
    ParsedOrPlanned(ModelJson(text), PlannerOrFinish(goalArg, stepNum))

(***************************************************************************)
(* src/server/routes/agent-step.ts: handleAgentStep and callGemini         *)
(***************************************************************************)
\* the names MODEL_USED is set to, as character sequences ("" when unset)
ModelChars(m) ==
    CASE m = "gpt2" -> <<"g", "p", "t", "2">>
      [] m = "gemini-1.5-flash" -> <<"g", "e", "m", "i", "n", "i", "-", "1", ".", "5", "-",
      "f", "l", "a", "s", "h">>
      [] m = "t5-small" -> <<"t", "5", "-", "s", "m", "a", "l", "l">>
      [] OTHER -> <<>>

\* process.env.MODEL_USED || "gemini-1.5-flash"
ConfiguredModel(env) == IF env = "" THEN "gemini-1.5-flash" ELSE env

\* /(gemini|gpt|openai|anthropic|claude|replicate|poe|perplexity|bard)/i
RemoteWords ==
    <<RouteTxt.gemini, RouteTxt.gpt, RouteTxt.openai, RouteTxt.anthropic, RouteTxt.claude,
      RouteTxt.replicate, RouteTxt.poe, RouteTxt.perplexity, RouteTxt.bard>>

prefersRemote(model) ==
    \E i \in DOMAIN RemoteWords : Includes(ToLower(ModelChars(model)), RemoteWords[i])

\* StepRequestSchema.safeParse(req.body).success, for a body that has a
\* goal string, an integer step and a snapshot object
StepMin == 0
StepMax == 100
StepRequestSchema(goalArg, stepNum) ==
    goalArg # <<>> /\ stepNum >= StepMin /\ stepNum <= StepMax

RestrictedPrefixes ==
    <<RouteTxt.chrome, RouteTxt.chrome_extension, RouteTxt.edge,
      RouteTxt.about_colon, RouteTxt.file>>

isRestrictedUrl(url) ==
    \E i \in DOMAIN RestrictedPrefixes : StartsWith(ToLower(url), RestrictedPrefixes[i])

\* what res.status(s).json(body) sends; a field the body does not have is
\* undefined
Response(status, ok, done, action, reason, debug) ==
    [status |-> status, ok |-> ok, done |-> done, action |-> action, reason |-> reason,
     debug |-> debug]

\* no response sent yet
NoResponse == Response(0, FALSE, FALSE, JUndefined, JUndefined, JUndefined)

\* JSON.stringify of a string: quotes and backslashes escaped
RECURSIVE EscapeQuotes(_)
EscapeQuotes(s) ==
    IF s = <<>> THEN <<>>
    ELSE (IF s[1] \in {"\"", "\\"} THEN <<"\\", s[1]>> ELSE <<s[1]>>) \o EscapeQuotes(Tail(s))

Quote(s) == <<"\"">> \o EscapeQuotes(s) \o <<"\"">>

\* JSON.stringify(v) for a value that is not undefined: a member of an
\* object that is undefined is left out, an undefined element of an array is
\* written null (an element of an array is a member with the empty key)
RECURSIVE Stringify(_)
RECURSIVE StringifyItems(_, _)
StringifyItem(item, object) ==
    IF object THEN Quote(item[1]) \o <<":">> \o Stringify(item[2])
    ELSE IF item[2].kind = "undefined" THEN Txt.null
    ELSE Stringify(item[2])

StringifyItems(m, object) ==
    IF m = <<>> THEN <<>>
    ELSE IF Len(m) = 1 THEN StringifyItem(m[1], object)
    ELSE StringifyItem(m[1], object) \o <<",">> \o StringifyItems(Tail(m), object)

Stringify(v) ==
    CASE v.kind = "string" -> Quote(v.atom)
      [] v.kind \in {"number", "boolean"} -> v.atom
      [] v.kind = "array" -> <<"[">> \o StringifyItems(v.members, FALSE) \o <<"]">>
      [] v.kind = "object" ->
            <<"{">> \o StringifyItems(SelectSeq(v.members, LAMBDA e : e[2].kind # "undefined"),
                                      TRUE) \o <<"}">>
      [] OTHER -> Txt.null

\* String(v) for undefined, null, a number or a boolean
StringOf(v) ==
    CASE v.kind = "undefined" -> RouteTxt.undefined
      [] v.kind = "null" -> Txt.null
      [] OTHER -> v.atom

\* the length of the debug excerpt: slice(0, 500)
DebugMax == 500

\* the text the excerpt is cut from
DebugText(raw) ==
    IF raw.kind = "string" THEN raw.atom
    ELSE IF raw.kind \in {"object", "array"} THEN Stringify(raw)
    ELSE StringOf(raw)

\* variant: the debug text is not cut
DebugExcerpt_Whole(raw) == DebugText(raw)

\* short: the first 500 characters of the raw output
DebugExcerpt(raw) == Take(DebugText(raw), DebugMax)

\* the answer to an output that fails ModelStepSchema
InvalidShape(raw) ==
    Response(200, FALSE, TRUE, JUndefined, JStr(RouteTxt.Gemini_returned_invalid_resp),
             JStr(DebugExcerpt(raw)))

\* candidate.data.action: the object schema keeps type and data (data with
\* all of its keys: passthrough)
OutAction(raw) ==
    IF Prop(raw, Txt.action).kind = "undefined" THEN JUndefined
    ELSE JObj(<< <<Txt.type, Prop(Prop(raw, Txt.action), Txt.type)>>,
                 <<Txt.data, Prop(Prop(raw, Txt.action), Txt.data)>> >>)

\* a || b
OrElse(a, b) == IF Truthy(a) THEN a ELSE b

\* the answer to a finish action: its reason, else the step's
FinishResponse(raw, action) ==
    Response(200, TRUE, TRUE, JUndefined,
             OrElse(Prop(Prop(action, Txt.data), Txt.reason), Prop(raw, Txt.reason)), JUndefined)

\* the answer that hands the step to the client; done defaults to false
Accepted(raw, action) ==
    Response(200, TRUE, Truthy(Prop(raw, Txt.done)), action, Prop(raw, Txt.reason), JUndefined)

\* the answer to a blocked navigation
Blocked(why, url) == Response(200, FALSE, TRUE, JUndefined, JStr(why \o url), JUndefined)

\* variant: the scheme check is left out
Guarded_NoSchemeCheck(raw, action, url, allowlistDomains) ==
    IF ~isAllowedByAllowlist(url, allowlistDomains)
    THEN Blocked(RouteTxt.Blocked_by_allowlist_sp, url)
    ELSE Accepted(raw, action)

\* variant: the allowlist check is left out
Guarded_NoAllowlistCheck(raw, action, url, allowlistDomains) ==
    IF isRestrictedUrl(url) THEN Blocked(RouteTxt.Blocked_restricted_URL_sp, url)
    ELSE Accepted(raw, action)

\* "Enforce allowlist + restricted URL safety on navigations"
Guarded(raw, action, url, allowlistDomains) ==
    IF isRestrictedUrl(url) THEN Blocked(RouteTxt.Blocked_restricted_URL_sp, url)
    ELSE IF ~isAllowedByAllowlist(url, allowlistDomains)
    THEN Blocked(RouteTxt.Blocked_by_allowlist_sp, url)
    ELSE Accepted(raw, action)

\* handleAgentStep after a successful validation, action being out.action
ActionResponse(raw, action, allowlistDomains) ==
    IF Prop(action, Txt.type) = JStr(Txt.finish) THEN FinishResponse(raw, action)
    ELSE IF Prop(action, Txt.type) \in {JStr(RouteTxt.navigate), JStr(Txt.open_tab)}
    THEN Guarded(raw, action, Prop(Prop(action, Txt.data), Txt.url).atom, allowlistDomains)
    ELSE Accepted(raw, action)

\* handleAgentStep from ModelStepSchema.safeParse(raw) on
StepResponse(raw, allowlistDomains) ==
    IF ~ModelStepSchema(raw) THEN InvalidShape(raw)
    ELSE ActionResponse(raw, OutAction(raw), allowlistDomains)

\* the catch block of handleAgentStep: e?.message || "Agent step failed"
ErrorResponse(message) ==
    Response(500, FALSE, TRUE, JUndefined,
             JStr(IF message = <<>> THEN RouteTxt.Agent_step_failed ELSE message), JUndefined)

\* no GEMINI_API_KEY for the remote fallback
MissingKeyResponse ==
    Response(500, FALSE, TRUE, JUndefined,
             JStr(RouteTxt.Missing_GEMINI_API_KEY_on_se), JUndefined)

\* an invalid request body
BadRequestResponse(message) == Response(400, FALSE, TRUE, JUndefined, JStr(message), JUndefined)

\* v?.[0]
Index0(v) ==
    IF v.kind = "array" THEN (IF v.members = <<>> THEN JUndefined ELSE v.members[1][2])
    ELSE Prop(v, <<"0">>)

\* json?.candidates?.[0]?.content?.parts
GeminiParts(json) ==
    Prop(Prop(Index0(Prop(json, RouteTxt.candidates)), RouteTxt.content), RouteTxt.parts)

\* what join() writes for an element: its string value
RECURSIVE TextOf(_)
RECURSIVE TextOfItems(_)
TextOfItems(m) ==
    IF m = <<>> THEN <<>>
    ELSE IF Len(m) = 1 THEN TextOf(m[1][2])
    ELSE TextOf(m[1][2]) \o <<",">> \o TextOfItems(Tail(m))

TextOf(v) ==
    CASE v.kind \in {"string", "number", "boolean"} -> v.atom
      [] v.kind = "object" -> Txt.object_Object
      [] v.kind = "array" -> TextOfItems(v.members)
      [] OTHER -> <<>>

\* parts.map((p) => p?.text).filter(Boolean)
PartTexts(parts) ==
    SelectSeq([i \in DOMAIN parts.members |-> Prop(parts.members[i][2], Txt.text)], Truthy)

\* the texts joined with "\n"
GeminiText(texts) == JoinLines([i \in DOMAIN texts |-> TextOf(texts[i])])

\* JSON.parse(m[1]) on the first {...} of the text, else { raw: text }
GeminiExtracted(p, text) ==
    IF p.ok THEN p.val ELSE JObj(<< <<RouteTxt.raw, JStr(text)>> >>)

\* p being JSON.parse(text): its value, else what the catch block returns
GeminiParsed(p, text) ==
    IF p.ok THEN p.val
    ELSE IF ExtractObject(text) = <<>> THEN JObj(<< <<RouteTxt.raw, JStr(text)>> >>)
    ELSE GeminiExtracted(JSONParse(ExtractObject(text)), text)

\* callGemini from `if (!text) return json` on
GeminiAnswer(json, text) ==
    IF text = <<>> THEN json ELSE GeminiParsed(JSONParse(text), text)

\* callGemini after resp.json(): map() of a value that is no array is a
\* TypeError
GeminiResult(json, parts) ==
    IF parts.kind \in {"undefined", "null"} THEN Returns(json)
    ELSE IF parts.kind # "array" THEN Throws
    ELSE Returns(GeminiAnswer(json, GeminiText(PartTexts(parts))))

(***************************************************************************)
(* State                                                                   *)
(***************************************************************************)
VARIABLES
    status,          \* AutonomousBrowsingAgent.status (AgentRunStatus)
    stopRequested,   \* AutonomousBrowsingAgent.stopRequested
    visited,         \* AutonomousBrowsingAgent.visited (set of URL ids)
    lastSnapshot,    \* AutonomousBrowsingAgent.lastSnapshot (page id or NoPage)
    goalTerms,       \* AutonomousBrowsingAgent.goalTerms
    settings,        \* the AgentSettings held by cortexStorage
    pc,              \* per start() invocation: where the call and its loop stand
    args,            \* per start() invocation: [goal, startUrl]
    result,          \* per start() invocation: how the call ended
    loc,             \* per loop: its locals [action, relevance, node, startUrl]
    memory,          \* the memory nodes persisted by cortexStorage.addMemoryNode
    generationPipeline, \* local-model.ts: the cached pipeline (the model it was loaded for)
    req,             \* per step request: where handleAgentStep and its callees stand
    console          \* the messages logged about the on-device backend

agentVars == <<status, stopRequested, visited, lastSnapshot, goalTerms, settings,
               pc, args, result, loc, memory>>
serverVars == <<generationPipeline, req, console>>

Calls == 1..MaxStarts
\* status.runId = null
NoRun == 0
\* the runId arguments of stop(): omitted, an id start() handed out, an unknown id
StopArgs == 0..(MaxStarts + 1)
\* the tab browserController.ensureTabId resolves to
TheTab == 1
\* an optional number field of the status that is undefined
Undef == -1

RunningStates  == {"planning", "acting", "observing"}
TerminalStates == {"completed", "stopped", "error"}

\* positions of a launched loop: the collaborator call it awaits
LoopPcs == {"initLog", "initNav", "budgetLog", "noActLog", "planLog", "blockedLog",
            "nav", "extract", "obsLog", "store", "relLog", "sleep", "stopLog"}

NoAction == [type |-> "none", url |-> NoUrl]
NoNode == [runId |-> NoRun, step |-> 0, navigations |-> 0]
\* the arguments of a call not made, or read for the last time
NoArgs == [goal |-> NoGoal, startUrl |-> NoUrl]
InitLoc == [action |-> NoAction, relevance |-> <<0, 1>>, node |-> NoNode, startUrl |-> NoUrl]

\* private status: AgentRunStatus = { runId: null, state: "idle" }
\* (startedAt, which start() writes and nothing reads, is left out).
\* updatedAt is kept relative to the clock: "now" when it equals Date.now(),
\* "earlier" once the clock has moved on.
InitStatus ==
    [runId |-> NoRun, state |-> "idle", goal |-> NoGoal,
     updatedAt |-> "undefined", tabId |-> Undef, depth |-> Undef, actionsTaken |-> Undef,
     navigations |-> Undef, clicks |-> Undef, lastError |-> "undefined"]

AgentInit(S) ==
    /\ status = InitStatus
    /\ stopRequested = FALSE
    /\ visited = {}
    /\ lastSnapshot = NoPage
    /\ goalTerms = <<>>
    /\ settings \in S
    /\ pc = [c \in Calls |-> "idle"]
    /\ args = [c \in Calls |-> NoArgs]
    /\ result = [c \in Calls |-> "none"]
    /\ loc = [c \in Calls |-> InitLoc]
    /\ memory = {}

(***************************************************************************)
(* src/unnamed/part_001: AutonomousBrowsingAgent                           *)
(***************************************************************************)
\* (x || 0) for an optional counter
OrZero(x) == IF x = Undef THEN 0 ELSE x

\* if (startUrl): undefined and "" are falsy
StartUrlGiven(u) == u # NoUrl /\ Urls[u] # <<>>

\* transition(state): { ...this.status, state, updatedAt: now() }
transition(st, state) == [st EXCEPT !.state = state, !.updatedAt = "now"]

\* the status object start() builds
NewStatus(c) ==
    [runId |-> c, state |-> "planning", goal |-> args[c].goal,
     updatedAt |-> "now", tabId |-> TheTab, depth |-> 0, actionsTaken |-> 0,
     navigations |-> 0, clicks |-> 0, lastError |-> "undefined"]

\* the guard of start(): the states a new run may begin in
\* variant: a start is also let through while the run is observing
StartAllowed_Observing(state) ==
    state \in {"idle", "stopped", "completed", "error", "observing"}

StartAllowed(state) == state \in {"idle", "stopped", "completed", "error"}

\* variant: a budget counts as reached only once the counter has passed it
budgetsExceeded_Strict(st, budgets) ==
    IF OrZero(st.depth) > budgets.maxDepth THEN "maxDepth reached"
    ELSE IF OrZero(st.actionsTaken) > budgets.maxActions THEN "maxActions reached"
    ELSE IF OrZero(st.navigations) > budgets.navigationBudget THEN "navigationBudget reached"
    ELSE IF OrZero(st.clicks) > budgets.clickBudget THEN "clickBudget reached"
    ELSE "none"

\* variant: the number of actions taken is not tested
budgetsExceeded_NoActions(st, budgets) ==
    IF OrZero(st.depth) >= budgets.maxDepth THEN "maxDepth reached"
    ELSE IF OrZero(st.navigations) >= budgets.navigationBudget THEN "navigationBudget reached"
    ELSE IF OrZero(st.clicks) >= budgets.clickBudget THEN "clickBudget reached"
    ELSE "none"

\* budgetsExceeded: the reason, or "none" for null
budgetsExceeded(st, budgets) ==
    IF OrZero(st.depth) >= budgets.maxDepth THEN "maxDepth reached"
    ELSE IF OrZero(st.actionsTaken) >= budgets.maxActions THEN "maxActions reached"
    ELSE IF OrZero(st.navigations) >= budgets.navigationBudget THEN "navigationBudget reached"
    ELSE IF OrZero(st.clicks) >= budgets.clickBudget THEN "clickBudget reached"
    ELSE "none"

\* the links planNextAction keeps, as positions in snapshot order
Candidates(links, vis, allow) ==
    {k \in DOMAIN links :
        /\ Urls[links[k].href] # <<>>
        /\ ~Includes(Urls[links[k].href], <<"#">>)
        /\ links[k].href \notin vis
        /\ isAllowedByAllowlist(Urls[links[k].href], allow)}

\* ranked[0]: Array.prototype.sort is stable, so the first link in snapshot
\* order among those of the highest score
BestLink(links, cands, terms) ==
    CHOOSE k \in cands :
        \A j \in cands :
            LET sk == scoreLink(terms, links[k].text, Urls[links[k].href])
                sj == scoreLink(terms, links[j].text, Urls[links[j].href])
            IN sk > sj \/ (sk = sj /\ k <= j)

\* planNextAction: NoAction for null
planNextAction(st, vis, last, terms, allow) ==
    IF st.tabId = Undef THEN NoAction
    ELSE IF last = NoPage THEN [type |-> "extract_dom", url |-> NoUrl]
    ELSE LET links == Pages[last].links
             cands == Candidates(links, vis, allow)
         IN IF cands = {} THEN NoAction
            ELSE [type |-> "navigate", url |-> links[BestLink(links, cands, terms)].href]

\* the message of the Error a failing collaborator call or guard raises
FailureMessage(at) ==
    CASE at = "startLog" -> "Start URL blocked by allowlist"
      [] at \in {"initNav", "nav"} -> "navigate failed"
      [] at = "extract" -> "extractDomSnapshot failed"
      [] at = "store" -> "memory store failed"
      [] OTHER -> "addAgentLog failed"

\* variant: fail() records the state but not the message
Fail_NoMessage(c, msg) ==
    /\ status' = transition(status, "error")
    /\ pc' = [pc EXCEPT ![c] = "failLog"]
    /\ loc' = [loc EXCEPT ![c] = InitLoc]
    /\ UNCHANGED visited

\* the loop's promise rejects; the catch handler of start() runs fail(e):
\* transition("error", { lastError: msg }), then awaits the error log.
\* (The locals of a loop that has ended are reset: nothing reads them.)
Fail(c, msg) ==
    /\ status' = [transition(status, "error") EXCEPT !.lastError = msg]
    /\ pc' = [pc EXCEPT ![c] = "failLog"]
    /\ loc' = [loc EXCEPT ![c] = InitLoc]
    /\ UNCHANGED visited

\* One pass from the while test of loop() to its next await, on the status st
\* and the visited set vis the preceding statements left
LoopTop(c, st, vis) ==
    /\ visited' = vis
    /\ IF stopRequested
       THEN /\ status' = st
            /\ pc' = [pc EXCEPT ![c] = "stopLog"]
            /\ UNCHANGED loc
       ELSE IF budgetsExceeded(st, settings.budgets) # "none"
       THEN /\ status' = st
            /\ pc' = [pc EXCEPT ![c] = "budgetLog"]
            /\ UNCHANGED loc
       ELSE LET planning == transition(st, "planning")
                action == planNextAction(planning, vis, lastSnapshot, goalTerms,
                                         settings.allowlistDomains)
            IN IF action = NoAction
               THEN /\ status' = planning
                    /\ pc' = [pc EXCEPT ![c] = "noActLog"]
                    /\ UNCHANGED loc
               ELSE /\ status' = transition(planning, "acting")
                    /\ pc' = [pc EXCEPT ![c] = "planLog"]
                    /\ loc' = [loc EXCEPT ![c].action = action]

\* the statements after the act phase: actionsTaken++, transition("observing"),
\* then the call of extractDomSnapshot
Observe(c, st) ==
    /\ status' = transition([st EXCEPT !.actionsTaken = OrZero(st.actionsTaken) + 1],
                            "observing")
    /\ pc' = [pc EXCEPT ![c] = "extract"]

\* the counters and the visited set after a navigate action
Navigated(st) ==
    [st EXCEPT !.navigations = OrZero(st.navigations) + 1,
               !.depth = OrZero(st.depth) + 1]

\* start(goal, startUrl): the call is made; it awaits getAgentSettings()
StartCall(c, g, u) ==
    /\ pc[c] = "idle"
    /\ \A d \in Calls : d < c => pc[d] # "idle"
    /\ pc' = [pc EXCEPT ![c] = "getSettings"]
    /\ args' = [args EXCEPT ![c] = [goal |-> g, startUrl |-> u]]
    /\ UNCHANGED <<status, stopRequested, visited, lastSnapshot, goalTerms,
                   settings, result, loc, memory>>
    /\ UNCHANGED serverVars

\* start(): the settings arrive; the enabled and state guards, the reset of
\* the run fields, id("run"), and the call of ensureTabId
StartGuard(c) ==
    /\ pc[c] = "getSettings"
    /\ IF ~settings.enabled
       THEN /\ result' = [result EXCEPT ![c] = "disabled"]
            /\ pc' = [pc EXCEPT ![c] = "done"]
            /\ args' = [args EXCEPT ![c] = NoArgs]
            /\ UNCHANGED <<stopRequested, visited, lastSnapshot, goalTerms>>
       ELSE IF ~StartAllowed(status.state)
       THEN /\ result' = [result EXCEPT ![c] = "already running"]
            /\ pc' = [pc EXCEPT ![c] = "done"]
            /\ args' = [args EXCEPT ![c] = NoArgs]
            /\ UNCHANGED <<stopRequested, visited, lastSnapshot, goalTerms>>
       ELSE /\ stopRequested' = FALSE
            /\ visited' = {}
            /\ lastSnapshot' = NoPage
            /\ goalTerms' = tokenizeGoal(Goals[args[c].goal])
            /\ pc' = [pc EXCEPT ![c] = "ensureTab"]
            /\ UNCHANGED <<result, args>>
    /\ UNCHANGED <<status, settings, loc, memory>>
    /\ UNCHANGED serverVars

\* start(): ensureTabId returns (or rejects); the status of the new run is
\* built and the "Agent run started" log is written
StartTab(c, ok) ==
    /\ pc[c] = "ensureTab"
    /\ IF ok
       THEN /\ status' = NewStatus(c)
            /\ pc' = [pc EXCEPT ![c] = "startLog"]
            /\ args' = [args EXCEPT ![c].goal = NoGoal]
            /\ UNCHANGED result
       ELSE /\ result' = [result EXCEPT ![c] = "ensureTabId failed"]
            /\ pc' = [pc EXCEPT ![c] = "done"]
            /\ args' = [args EXCEPT ![c] = NoArgs]
            /\ UNCHANGED status
    /\ UNCHANGED <<stopRequested, visited, lastSnapshot, goalTerms, settings,
                   loc, memory>>
    /\ UNCHANGED serverVars

\* start(): the log write returns (or rejects); loop() is called and runs to
\* its first await, and start() returns the status
StartLaunch(c, ok) ==
    /\ pc[c] = "startLog"
    /\ IF ~ok
       THEN /\ result' = [result EXCEPT ![c] = "addAgentLog failed"]
            /\ pc' = [pc EXCEPT ![c] = "done"]
            /\ UNCHANGED <<status, visited, loc>>
       ELSE /\ result' = [result EXCEPT ![c] = "ok"]
            /\ IF StartUrlGiven(args[c].startUrl)
               THEN IF ~isAllowedByAllowlist(Urls[args[c].startUrl], settings.allowlistDomains)
                    THEN Fail(c, FailureMessage("startLog"))
                    ELSE /\ status' = transition(status, "acting")
                         /\ pc' = [pc EXCEPT ![c] = "initLog"]
                         /\ loc' = [loc EXCEPT ![c].startUrl = args[c].startUrl]
                         /\ UNCHANGED visited
               ELSE LoopTop(c, status, visited)
    /\ args' = [args EXCEPT ![c] = NoArgs]
    /\ UNCHANGED <<stopRequested, lastSnapshot, goalTerms, settings, memory>>
    /\ UNCHANGED serverVars

\* variant: the initial navigation is made whatever dryRun says
InitLogDone_AlwaysNavigate(c, ok) ==
    /\ pc[c] = "initLog"
    /\ IF ~ok THEN Fail(c, FailureMessage("initLog"))
       ELSE /\ pc' = [pc EXCEPT ![c] = "initNav"]
            /\ UNCHANGED <<status, visited, loc>>
    /\ UNCHANGED <<stopRequested, lastSnapshot, goalTerms, settings, args,
                   result, memory>>
    /\ UNCHANGED serverVars

\* loop(): the "Initial navigation" log returns; navigate is called unless
\* dryRun, else navigations++ and the first pass of the while loop
InitLogDone(c, ok) ==
    /\ pc[c] = "initLog"
    /\ IF ~ok THEN Fail(c, FailureMessage("initLog"))
       ELSE IF ~settings.dryRun
       THEN /\ pc' = [pc EXCEPT ![c] = "initNav"]
            /\ UNCHANGED <<status, visited, loc>>
       ELSE LoopTop(c, [status EXCEPT !.navigations = OrZero(status.navigations) + 1],
                    visited)
    /\ UNCHANGED <<stopRequested, lastSnapshot, goalTerms, settings, args,
                   result, memory>>
    /\ UNCHANGED serverVars

\* loop(): the initial browserController.navigate returns (or rejects)
InitNavDone(c, ok) ==
    /\ pc[c] = "initNav"
    /\ IF ~ok THEN Fail(c, FailureMessage("initNav"))
       ELSE LoopTop(c, [status EXCEPT !.navigations = OrZero(status.navigations) + 1],
                    visited)
    /\ UNCHANGED <<stopRequested, lastSnapshot, goalTerms, settings, args,
                   result, memory>>
    /\ UNCHANGED serverVars

\* loop(): the "Action planned" log returns; the act phase up to its await
\* (navigate, or the "Blocked by allowlist" log), or straight on to observe
PlanLogDone(c, ok) ==
    /\ pc[c] = "planLog"
    /\ IF ~ok THEN Fail(c, FailureMessage("planLog"))
       ELSE IF loc[c].action.type = "navigate"
       THEN LET url == loc[c].action.url
            IN IF Urls[url] = <<>> THEN Fail(c, "Navigate action missing url")
               ELSE IF ~isAllowedByAllowlist(Urls[url], settings.allowlistDomains)
               THEN /\ pc' = [pc EXCEPT ![c] = "blockedLog"]
                    /\ UNCHANGED <<status, visited, loc>>
               ELSE IF ~settings.dryRun
               THEN /\ pc' = [pc EXCEPT ![c] = "nav"]
                    /\ UNCHANGED <<status, visited, loc>>
               ELSE /\ Observe(c, Navigated(status))
                    /\ visited' = visited \cup {url}
                    /\ UNCHANGED loc
       ELSE /\ Observe(c, status)
            /\ UNCHANGED <<visited, loc>>
    /\ UNCHANGED <<stopRequested, lastSnapshot, goalTerms, settings, args,
                   result, memory>>
    /\ UNCHANGED serverVars

\* loop(): browserController.navigate (or the "Blocked by allowlist" log)
\* returns or rejects; navigations++, visited.add(url), depth++, then observe
NavDone(c, ok) ==
    /\ pc[c] \in {"nav", "blockedLog"}
    /\ IF ~ok THEN Fail(c, FailureMessage(pc[c]))
       ELSE /\ Observe(c, Navigated(status))
            /\ visited' = visited \cup {loc[c].action.url}
            /\ UNCHANGED loc
    /\ UNCHANGED <<stopRequested, lastSnapshot, goalTerms, settings, args,
                   result, memory>>
    /\ UNCHANGED serverVars

\* loop(): extractDomSnapshot returns page p (or rejects); the snapshot is
\* kept, scored, and the "Observation captured" log is written
ExtractDone(c, p, ok) ==
    /\ pc[c] = "extract"
    /\ IF ~ok
       THEN /\ Fail(c, FailureMessage("extract"))
            /\ UNCHANGED lastSnapshot
       ELSE /\ lastSnapshot' = p
            /\ loc' = [loc EXCEPT ![c].relevance = scoreSnapshot(goalTerms, Pages[p])]
            /\ pc' = [pc EXCEPT ![c] = "obsLog"]
            /\ UNCHANGED <<status, visited>>
    /\ UNCHANGED <<stopRequested, goalTerms, settings, args, result, memory>>
    /\ UNCHANGED serverVars

\* storeStepMemory: the node, by the two parts of its id agent_<runId>_<step>,
\* built from the status as it is when called (navigations is kept with the
\* node to tell which navigation it follows; the page fields it copies from
\* the snapshot are left out)
StepNode(st) ==
    [runId |-> st.runId, step |-> OrZero(st.actionsTaken) + 1,
     navigations |-> OrZero(st.navigations)]

\* loop(): the observation log returns; storeStepMemory builds the node and
\* calls addMemoryNode and storeEmbedding
ObsLogDone(c, ok) ==
    /\ pc[c] = "obsLog"
    /\ IF ~ok THEN Fail(c, FailureMessage("obsLog"))
       ELSE /\ loc' = [loc EXCEPT ![c].node = StepNode(status), ![c].action = NoAction]
            /\ pc' = [pc EXCEPT ![c] = "store"]
            /\ UNCHANGED <<status, visited>>
    /\ UNCHANGED <<stopRequested, lastSnapshot, goalTerms, settings, args,
                   result, memory>>
    /\ UNCHANGED serverVars

\* the outcomes of Promise.all([addMemoryNode, storeEmbedding])
StoreOutcomes == {"ok", "addMemoryNode failed", "storeEmbedding failed"}

\* loop(): the two storage writes settle; on success the relevance test
StoreDone(c, outcome) ==
    /\ pc[c] = "store"
    /\ memory' = IF outcome = "addMemoryNode failed" THEN memory
                 ELSE memory \cup {loc[c].node}
    /\ IF outcome # "ok" THEN Fail(c, FailureMessage("store"))
       ELSE /\ pc' = [pc EXCEPT ![c] =
                        IF HighRelevance(loc[c].relevance) THEN "relLog" ELSE "sleep"]
            /\ loc' = [loc EXCEPT ![c] = [InitLoc EXCEPT !.startUrl = loc[c].startUrl]]
            /\ UNCHANGED <<status, visited>>
    /\ UNCHANGED <<stopRequested, lastSnapshot, goalTerms, settings, args, result>>
    /\ UNCHANGED serverVars

\* loop(): one of the three "Stopping: ..." logs returns; transition("completed")
CompleteLogDone(c, ok) ==
    /\ pc[c] \in {"budgetLog", "noActLog", "relLog"}
    /\ IF ~ok THEN Fail(c, FailureMessage(pc[c]))
       ELSE /\ status' = transition(status, "completed")
            /\ pc' = [pc EXCEPT ![c] = "done"]
            /\ loc' = [loc EXCEPT ![c] = InitLoc]
            /\ UNCHANGED visited
    /\ UNCHANGED <<stopRequested, lastSnapshot, goalTerms, settings, args,
                   result, memory>>
    /\ UNCHANGED serverVars

\* loop(): the 250 ms pause ends; the next pass of the while loop
SleepDone(c) ==
    /\ pc[c] = "sleep"
    /\ LoopTop(c, status, visited)
    /\ UNCHANGED <<stopRequested, lastSnapshot, goalTerms, settings, args,
                   result, memory>>
    /\ UNCHANGED serverVars

\* loop(): the "Stopped by user" log returns; transition("stopped")
StopLogDone(c, ok) ==
    /\ pc[c] = "stopLog"
    /\ IF ~ok THEN Fail(c, FailureMessage("stopLog"))
       ELSE /\ status' = transition(status, "stopped")
            /\ pc' = [pc EXCEPT ![c] = "done"]
            /\ loc' = [loc EXCEPT ![c] = InitLoc]
            /\ UNCHANGED visited
    /\ UNCHANGED <<stopRequested, lastSnapshot, goalTerms, settings, args,
                   result, memory>>
    /\ UNCHANGED serverVars

\* fail(): the "Agent failed" log settles; nothing follows it
FailLogDone(c) ==
    /\ pc[c] = "failLog"
    /\ pc' = [pc EXCEPT ![c] = "done"]
    /\ UNCHANGED <<status, stopRequested, visited, lastSnapshot, goalTerms, settings,
                   args, result, loc, memory>>
    /\ UNCHANGED serverVars

\* stop(runId): r = 0 is the omitted argument.  The statements before the
\* first await; what follows only writes a log and returns a copy of the status
stop(r) ==
    /\ IF r # 0 /\ status.runId # NoRun /\ r # status.runId
       THEN UNCHANGED <<status, stopRequested>>
       ELSE /\ stopRequested' = TRUE
            /\ status' = transition(status, "stopped")
    /\ UNCHANGED <<visited, lastSnapshot, goalTerms, settings, pc, args,
                   result, loc, memory>>
    /\ UNCHANGED serverVars

\* Date.now() advances past status.updatedAt
Tick ==
    /\ status.updatedAt = "now"
    /\ status' = [status EXCEPT !.updatedAt = "earlier"]
    /\ UNCHANGED <<stopRequested, visited, lastSnapshot, goalTerms, settings,
                   pc, args, result, loc, memory>>
    /\ UNCHANGED serverVars

(***************************************************************************)
(* The step requests, the texts the on-device model produces               *)
(***************************************************************************)
\* number of step requests in one behaviour
MaxRequests == 2
Requests == 1..MaxRequests

\* the goals of the step requests
ServerGoals == <<
    <<"o", "p", "e", "n", " ", "A", ".", "i", "o", "/", "x">>,
    <<"f", "i", "n", "d", " ", "p", "e", "n", " ", "o", "n", " ", "a", "m", "a", "z", "o",
      "n">>,
    <<"f", "i", "n", "d", " ", LoneSurrogate, " ", "o", "n", " ", "a", "m", "a", "z", "o", "n">>,
    <<"P", "e", "n", " ", "b", "e", "l", "o", "w", " ", "1", "2", ",", "5", "0", "0", " ",
      "r", "s">>,
    <<"h", "i">>,
    <<"g", "o", " ", "o", "n", " ", "_", ".", "i", "n">>,
    <<"f", "i", "n", "d", " ", "w", "i", "r", "e", "l", "e", "s", "s", " ", "m", "o", "u",
      "s", "e", " ", "o", "n", " ", "a", "m", "a", "z", "o", "n", ".", "i", "n">>,
    <<"s", "e", "e", " ", "H", "T", "T", "P", ":", "/", "/", "b", ".", "c", "o", "/", "p",
      "?", "q", "=", "1", " ", "n", "o", "w">> >>

\* the length of a string longer than the debug excerpt
LongLen == 510

\* the texts of a generation
Texts == [
    step |-> <<"{", "\"", "d", "o", "n", "e", "\"", ":", "f", "a", "l", "s", "e", ",",
      "\"", "a", "c", "t", "i", "o", "n", "\"", ":", "{", "\"", "t", "y", "p", "e", "\"",
      ":", "\"", "n", "a", "v", "i", "g", "a", "t", "e", "\"", ",", "\"", "d", "a", "t",
      "a", "\"", ":", "{", "\"", "u", "r", "l", "\"", ":", "\"", "h", "t", "t", "p", "s",
      ":", "/", "/", "a", ".", "i", "o", "\"", "}", "}", "}">>,
    emptyObject |-> <<"{", "}">>,
    prose |-> <<"S", "u", "r", "e", ":", " ", "{", "\"", "d", "o", "n", "e", "\"", ":",
      "t", "r", "u", "e", ",", "\"", "a", "c", "t", "i", "o", "n", "\"", ":", "{", "\"",
      "t", "y", "p", "e", "\"", ":", "\"", "f", "i", "n", "i", "s", "h", "\"", ",", "\"",
      "d", "a", "t", "a", "\"", ":", "{", "}", "}", "}", " ", "o", "k">>,
    null |-> <<"n", "u", "l", "l">>,
    noJson |-> <<"n", "o", " ", "j", "s", "o", "n">>,
    click |-> <<"{", " ", "\"", "a", "c", "t", "i", "o", "n", "\"", ":", " ", "{", "\"",
      "t", "y", "p", "e", "\"", ":", "\"", "c", "l", "i", "c", "k", "\"", ",", "\"", "d",
      "a", "t", "a", "\"", ":", "{", "}", "}", ",", " ", "\"", "d", "o", "n", "e", "\"",
      ":", " ", "1", " ", "}">>,
    broken |-> <<"{", "\"", "d", "o", "n", "e", "\"", ":", "}">>,
    array |-> <<"[", "0", ",", " ", "\"", "x", "\"", "]">>,
    file |-> <<"{", "\"", "d", "o", "n", "e", "\"", ":", "f", "a", "l", "s", "e", ",",
      "\"", "a", "c", "t", "i", "o", "n", "\"", ":", "{", "\"", "t", "y", "p", "e", "\"",
      ":", "\"", "n", "a", "v", "i", "g", "a", "t", "e", "\"", ",", "\"", "d", "a", "t",
      "a", "\"", ":", "{", "\"", "u", "r", "l", "\"", ":", "\"", "F", "i", "l", "e", ":",
      "/", "/", "/", "e", "t", "c", "/", "p", "a", "s", "s", "w", "d", "\"", "}", "}", "}">>,
    chrome |-> <<"{", "\"", "a", "c", "t", "i", "o", "n", "\"", ":", "{", "\"", "t", "y",
      "p", "e", "\"", ":", "\"", "o", "p", "e", "n", "_", "t", "a", "b", "\"", ",", "\"",
      "d", "a", "t", "a", "\"", ":", "{", "\"", "u", "r", "l", "\"", ":", "\"", "c", "h",
      "r", "o", "m", "e", ":", "/", "/", "s", "e", "t", "t", "i", "n", "g", "s", "\"", "}",
      "}", "}">>,
    offList |-> <<"{", "\"", "d", "o", "n", "e", "\"", ":", "f", "a", "l", "s", "e", ",",
      "\"", "a", "c", "t", "i", "o", "n", "\"", ":", "{", "\"", "t", "y", "p", "e", "\"",
      ":", "\"", "o", "p", "e", "n", "_", "t", "a", "b", "\"", ",", "\"", "d", "a", "t",
      "a", "\"", ":", "{", "\"", "u", "r", "l", "\"", ":", "\"", "h", "t", "t", "p", "s",
      ":", "/", "/", "e", "v", "i", "l", ".", "e", "x", "a", "m", "p", "l", "e", "/", "a",
      ".", "i", "o", "\"", "}", "}", "}">>,
    subdomain |-> <<"{", "\"", "d", "o", "n", "e", "\"", ":", "f", "a", "l", "s", "e", ",",
      "\"", "a", "c", "t", "i", "o", "n", "\"", ":", "{", "\"", "t", "y", "p", "e", "\"",
      ":", "\"", "n", "a", "v", "i", "g", "a", "t", "e", "\"", ",", "\"", "d", "a", "t",
      "a", "\"", ":", "{", "\"", "u", "r", "l", "\"", ":", "\"", "h", "t", "t", "p", "s",
      ":", "/", "/", "d", "o", "c", "s", ".", "a", ".", "i", "o", "/", "x", "\"", ",",
      "\"", "t", "a", "b", "I", "d", "\"", ":", "7", "}", "}", "}">>,
    about |-> <<"{", "\"", "d", "o", "n", "e", "\"", ":", "f", "a", "l", "s", "e", ",",
      "\"", "a", "c", "t", "i", "o", "n", "\"", ":", "{", "\"", "t", "y", "p", "e", "\"",
      ":", "\"", "n", "a", "v", "i", "g", "a", "t", "e", "\"", ",", "\"", "d", "a", "t",
      "a", "\"", ":", "{", "\"", "u", "r", "l", "\"", ":", "\"", "a", "b", "o", "u", "t",
      ":", "b", "l", "a", "n", "k", "\"", "}", "}", "}">>,
    closeTab |-> <<"{", "\"", "d", "o", "n", "e", "\"", ":", "f", "a", "l", "s", "e", ",",
      "\"", "a", "c", "t", "i", "o", "n", "\"", ":", "{", "\"", "t", "y", "p", "e", "\"",
      ":", "\"", "c", "l", "o", "s", "e", "_", "t", "a", "b", "\"", ",", "\"", "d", "a",
      "t", "a", "\"", ":", "{", "}", "}", "}">>,
    long |-> <<"\"">> \o [i \in 1..LongLen |-> "a"] \o <<"\"">> ]

Generation(t) == [generated_text |-> t, text |-> <<>>]

\* the values pipe(prompt, options) resolves to
Outputs == {
    [array |-> TRUE, gens |-> <<Generation(Texts.step)>>],
    [array |-> TRUE, gens |-> <<Generation(Texts.noJson), Generation(Texts.emptyObject)>>],
    [array |-> TRUE, gens |-> <<Generation(Texts.emptyObject)>>],
    [array |-> TRUE, gens |-> <<[generated_text |-> <<>>, text |-> Texts.prose]>>],
    [array |-> TRUE, gens |-> <<Generation(Texts.null)>>],
    [array |-> TRUE, gens |-> <<Generation(Texts.click)>>],
    [array |-> TRUE, gens |-> <<Generation(Texts.array)>>],
    [array |-> FALSE, gens |-> <<Generation(Texts.broken)>>],
    [array |-> FALSE, gens |-> <<Generation(<<>>)>>] }

\* more of them: navigations the handler must judge, a long string
GuardOutputs == {
    [array |-> TRUE, gens |-> <<Generation(Texts.file)>>],
    [array |-> TRUE, gens |-> <<Generation(Texts.chrome)>>],
    [array |-> TRUE, gens |-> <<Generation(Texts.offList)>>],
    [array |-> TRUE, gens |-> <<Generation(Texts.subdomain)>>],
    [array |-> TRUE, gens |-> <<Generation(Texts.closeTab)>>],
    [array |-> FALSE, gens |-> <<Generation(Texts.long)>>] }

\* a step request and the environment it is served in: MODEL_USED, the
\* goal, the step, the allowlist, and whether GEMINI_API_KEY is set
StepArg(model, goal, step, allowlistDomains, apiKey) ==
    [model |-> model, goal |-> goal, step |-> step, allowlistDomains |-> allowlistDomains,
     apiKey |-> apiKey]

\* the requests of the concurrent runs
StepArgs == {
    StepArg("gpt2", 1, 0, AllowAll, FALSE),
    StepArg("gemini-1.5-flash", 2, 2, AllowAll, FALSE),
    StepArg("gemini-1.5-flash", 3, 0, AllowAll, FALSE),
    StepArg("gpt2", 4, 1, AllowAll, FALSE),
    StepArg("gpt2", 5, 3, AllowAll, FALSE),
    StepArg("gemini-1.5-flash", 6, 0, AllowAll, FALSE) }

\* the requests of the single-request runs
HandleArgs == StepArgs \cup {
    StepArg("", 3, 0, AllowA, TRUE),
    StepArg("t5-small", 3, 0, AllowAll, TRUE),
    StepArg("t5-small", 3, 0, AllowAll, FALSE),
    StepArg("t5-small", 1, 0, AllowA, FALSE),
    StepArg("gemini-1.5-flash", 2, 0, AllowA, TRUE),
    StepArg("t5-small", 2, 1, AllowA, FALSE),
    StepArg("gemini-1.5-flash", 1, 0, AllowAll, FALSE),
    StepArg("gpt2", 1, 1, AllowAll, FALSE),
    StepArg("gpt2", 1, 2, AllowAll, FALSE),
    StepArg("t5-small", 1, StepMax, AllowA, FALSE),
    StepArg("gpt2", 7, 0, AllowAll, FALSE),
    StepArg("gpt2", 7, 1, AllowAll, FALSE),
    StepArg("gpt2", 7, 2, AllowAll, FALSE),
    StepArg("gpt2", 7, 3, AllowAll, FALSE),
    StepArg("gpt2", 8, 0, AllowAll, FALSE),
    StepArg("gpt2", 8, 5, AllowAll, FALSE) }

\* request bodies StepRequestSchema rejects, with the message of the first
\* issue
InvalidBodies == {
    [goal |-> <<>>, step |-> 0,
     message |-> RouteTxt.String_must_contain_at_least],
    [goal |-> <<"h", "i">>, step |-> 101,
     message |-> RouteTxt.Number_must_be_less_than_or] }

\* what fetch() settles to: a rejection, or a response that is ok or not
FetchOutcomes == {"rejects", "ok", "notOk"}

\* a body of the remote backend: candidates[0].content.parts
GeminiReply(parts) ==
    JObj(<< <<RouteTxt.candidates,
              JArr(<< <<<<>>, JObj(<< <<RouteTxt.content,
                                       JObj(<< <<RouteTxt.parts, parts>> >>)>> >>)>> >>)>> >>)

\* parts that each carry a text
TextParts(texts) ==
    JArr([i \in DOMAIN texts |-> <<<<>>, JObj(<< <<Txt.text, JStr(texts[i])>> >>)>>])

\* what resp.json() resolves to
GeminiBodies == {
    GeminiReply(TextParts(<<Texts.about>>)),
    GeminiReply(TextParts(<<Texts.offList>>)),
    GeminiReply(TextParts(<<Texts.noJson, Texts.noJson>>)),
    GeminiReply(TextParts(<<Texts.prose>>)),
    GeminiReply(JNum(<<"7">>)),
    JObj(<< <<RouteTxt.error, JObj(<< <<RouteTxt.code, JNum(<<"4", "2", "9">>)>> >>)>> >>),
    JNull }

\* a request that has not been made
NoRequest ==
    [pc |-> "idle", model |-> "", goal |-> 0, step |-> 0, loading |-> "", pipe |-> "",
     raw |-> JUndefined, allowlistDomains |-> <<>>, apiKey |-> FALSE, remote |-> FALSE,
     response |-> NoResponse]

ServerInit ==
    /\ generationPipeline = NoPipeline
    /\ req = [r \in Requests |-> NoRequest]
    /\ console = {}

\* the messages console.error and console.warn write about the on-device
\* backend
LogAdapterMissing ==
    "local-model adapter not found or invalid; falling back to deterministic planner"
LogGenerateStepError == "local-model.generateStep error:"
LogParseFailed ==
    "local-model: failed to parse model output, falling back to deterministic planner"
LogPlannerFailed == "deterministicPlanner failed:"

Logs(messages) == console' = console \cup messages

\* what generateStep logs once the pipeline has answered with text: the
\* planner is called when nothing parses, and when it throws the outer catch
\* block calls it again
GenerateLogs(json, planned) ==
    IF json.found THEN {}
    ELSE IF planned.threw THEN {LogParseFailed, LogGenerateStepError, LogPlannerFailed}
    ELSE {LogParseFailed}

\* what the outer catch block of generateStep logs
CatchLogs(planned) ==
    IF planned.threw THEN {LogGenerateStepError, LogPlannerFailed} ELSE {LogGenerateStepError}

\* what a failed load logs: nothing when the default model is tried next
LoadLogs(r) ==
    IF req[r].loading # DefaultModel THEN {}
    ELSE CatchLogs(deterministicPlanner(ServerGoals[req[r].goal], req[r].step))

(***************************************************************************)
(* callLocalModel and generateStep, step by step                           *)
(***************************************************************************)
\* params.model || "gpt2"
modelRequested(r) == IF req[r].model = "" THEN DefaultModel ELSE req[r].model

\* callLocalModel ends with out: a step it returns, or an exception that
\* leaves it
Settle(r, out) ==
    req' = [req EXCEPT ![r].pc = IF out.threw THEN "threw" ELSE "returned",
                       ![r].raw = out.val,
                       ![r].loading = ""]

\* callLocalModel after generateStep: `if (raw) return raw`, else its own
\* fallback planner
Resolve(r, raw) ==
    Settle(r, IF Truthy(raw) THEN Returns(raw) ELSE LocalFallback(ServerGoals[req[r].goal]))

\* ensureGenerationPipeline(name) up to its first await: the cached pipeline
\* is handed back and pipe(prompt) is called, or the transformers module is
\* imported
Ensure(r, name, cached) ==
    IF cached # NoPipeline
    THEN req' = [req EXCEPT ![r].pc = "generate", ![r].pipe = cached, ![r].loading = ""]
    ELSE req' = [req EXCEPT ![r].pc = "importTransformers", ![r].loading = name]

\* variant: a failed load is always followed by an attempt with "gpt2"
LoadFailed_AlwaysRetry(r) ==
    /\ generationPipeline' = NoPipeline
    /\ Ensure(r, DefaultModel, NoPipeline)

\* the catch block of ensureGenerationPipeline and what follows the
\* rejection: a second attempt with "gpt2" when another model was requested,
\* else the outer catch block of generateStep
LoadFailed(r) ==
    /\ generationPipeline' = NoPipeline
    /\ IF req[r].loading # DefaultModel
       THEN Ensure(r, DefaultModel, NoPipeline)
       ELSE Resolve(r, PlannerOrFinish(ServerGoals[req[r].goal], req[r].step))

\* handleAgentStep calls callLocalModel, which imports ../local-model
StepCall(r, a) ==
    /\ req[r].pc = "idle"
    /\ \A q \in Requests : q < r => req[q].pc # "idle"
    /\ req' = [req EXCEPT ![r] = [NoRequest EXCEPT !.pc = "importLocal",
                                                   !.model = ConfiguredModel(a.model),
                                                   !.goal = a.goal,
                                                   !.step = a.step,
                                                   !.allowlistDomains = a.allowlistDomains,
                                                   !.apiKey = a.apiKey]]
    /\ StepRequestSchema(ServerGoals[a.goal], a.step)
    /\ UNCHANGED <<generationPipeline, console>>
    /\ UNCHANGED agentVars

\* the import of ../local-model settles: without the adapter the fallback
\* planner of callLocalModel answers; with it generateStep is called
LocalImportDone(r, present) ==
    /\ req[r].pc = "importLocal"
    /\ IF present THEN Ensure(r, modelRequested(r), generationPipeline)
       ELSE Settle(r, LocalFallback(ServerGoals[req[r].goal]))
    /\ Logs(IF present THEN {} ELSE {LogAdapterMissing})
    /\ UNCHANGED generationPipeline
    /\ UNCHANGED agentVars

\* the import of @xenova/transformers settles
TransformersImportDone(r, ok) ==
    /\ req[r].pc = "importTransformers"
    /\ IF ok
       THEN /\ req' = [req EXCEPT ![r].pc = "load"]
            /\ UNCHANGED generationPipeline
       ELSE LoadFailed(r)
    /\ Logs(IF ok THEN {} ELSE LoadLogs(r))
    /\ UNCHANGED agentVars

\* pipeline("text-generation", modelName) settles: the pipeline is cached
\* and pipe(prompt) is called
PipelineLoadDone(r, ok) ==
    /\ req[r].pc = "load"
    /\ IF ok
       THEN /\ generationPipeline' = req[r].loading
            /\ req' = [req EXCEPT ![r].pc = "generate", ![r].pipe = req[r].loading,
                                  ![r].loading = ""]
       ELSE LoadFailed(r)
    /\ Logs(IF ok THEN {} ELSE LoadLogs(r))
    /\ UNCHANGED agentVars

\* pipe(prompt) resolves to out: the text is parsed
GenerateDone(r, out) ==
    /\ req[r].pc = "generate"
    /\ Resolve(r, ParseModelText(OutputText(out), ServerGoals[req[r].goal], req[r].step))
    /\ Logs(GenerateLogs(ModelJson(OutputText(out)),
                         deterministicPlanner(ServerGoals[req[r].goal], req[r].step)))
    /\ UNCHANGED generationPipeline
    /\ UNCHANGED agentVars

\* pipe(prompt) rejects: the outer catch block of generateStep
GenerateFailed(r) ==
    /\ req[r].pc = "generate"
    /\ Resolve(r, PlannerOrFinish(ServerGoals[req[r].goal], req[r].step))
    /\ Logs(CatchLogs(deterministicPlanner(ServerGoals[req[r].goal], req[r].step)))
    /\ UNCHANGED generationPipeline
    /\ UNCHANGED agentVars

(***************************************************************************)
(* handleAgentStep around callLocalModel, and callGemini                   *)
(***************************************************************************)
\* handleAgentStep sends a response
Respond(r, response) ==
    req' = [req EXCEPT ![r].pc = "responded", ![r].response = response]

\* handleAgentStep, the body fails StepRequestSchema: 400
StepInvalid(r, body) ==
    /\ req[r].pc = "idle"
    /\ \A q \in Requests : q < r => req[q].pc # "idle"
    /\ ~StepRequestSchema(body.goal, body.step)
    /\ Respond(r, BadRequestResponse(body.message))
    /\ UNCHANGED <<generationPipeline, console>>
    /\ UNCHANGED agentVars

\* callLocalModel has returned raw: validation, guards, response
LocalReturned(r) ==
    /\ req[r].pc = "returned"
    /\ Respond(r, StepResponse(req[r].raw, req[r].allowlistDomains))
    /\ UNCHANGED <<generationPipeline, console>>
    /\ UNCHANGED agentVars

\* callLocalModel has thrown: the remote fallback when the model name asks
\* for one, else the error goes to the catch block of handleAgentStep
LocalThrew(r) ==
    /\ req[r].pc = "threw"
    /\ IF ~prefersRemote(req[r].model) THEN Respond(r, ErrorResponse(RouteTxt.URI_malformed))
       ELSE IF ~req[r].apiKey THEN Respond(r, MissingKeyResponse)
       ELSE req' = [req EXCEPT ![r].pc = "fetch", ![r].remote = TRUE]
    /\ UNCHANGED <<generationPipeline, console>>
    /\ UNCHANGED agentVars

\* callGemini: fetch settles
GeminiFetchDone(r, outcome) ==
    /\ req[r].pc = "fetch"
    /\ CASE outcome = "rejects" -> Respond(r, ErrorResponse(RouteTxt.fetch_failed))
         [] outcome = "ok" -> req' = [req EXCEPT ![r].pc = "json"]
         [] outcome = "notOk" -> req' = [req EXCEPT ![r].pc = "errorText"]
    /\ UNCHANGED <<generationPipeline, console>>
    /\ UNCHANGED agentVars

\* callGemini: resp.text() of a response that is not ok settles, the error
\* is thrown
GeminiErrorTextDone(r) ==
    /\ req[r].pc = "errorText"
    /\ Respond(r, ErrorResponse(RouteTxt.Gemini_HTTP_503_Service_Unav))
    /\ UNCHANGED <<generationPipeline, console>>
    /\ UNCHANGED agentVars

\* what handleAgentStep does with the outcome of callGemini
RemoteSettled(r, out) ==
    IF out.threw THEN Respond(r, ErrorResponse(RouteTxt.parts_map_is_not_a_function))
    ELSE req' = [req EXCEPT ![r].pc = "responded", ![r].raw = out.val,
                            ![r].response = StepResponse(out.val, req[r].allowlistDomains)]

\* callGemini: resp.json() settles (parsed = FALSE: the body is no JSON)
GeminiJsonDone(r, parsed, json) ==
    /\ req[r].pc = "json"
    /\ IF parsed THEN RemoteSettled(r, GeminiResult(json, GeminiParts(json)))
       ELSE Respond(r, ErrorResponse(RouteTxt.Unexpected_token_in_JSON_at))
    /\ UNCHANGED <<generationPipeline, console>>
    /\ UNCHANGED agentVars

\* the (goal, startUrl) pairs start() is called with
StartArgs == { [goal |-> 1, startUrl |-> NoUrl], [goal |-> 2, startUrl |-> 1],
               [goal |-> 1, startUrl |-> 3] }

\* the steps of start() and of the loops it launches, for the invocations in C
AgentNext(C) ==
    \/ \E c \in C, a \in StartArgs : StartCall(c, a.goal, a.startUrl)
    \/ \E c \in C : StartGuard(c)
    \/ \E c \in C, ok \in BOOLEAN : StartTab(c, ok)
    \/ \E c \in C, ok \in BOOLEAN : StartLaunch(c, ok)
    \/ \E c \in C, ok \in BOOLEAN : InitLogDone(c, ok)
    \/ \E c \in C, ok \in BOOLEAN : InitNavDone(c, ok)
    \/ \E c \in C, ok \in BOOLEAN : PlanLogDone(c, ok)
    \/ \E c \in C, ok \in BOOLEAN : NavDone(c, ok)
    \/ \E c \in C, p \in PageIds, ok \in BOOLEAN : ExtractDone(c, p, ok)
    \/ \E c \in C, ok \in BOOLEAN : ObsLogDone(c, ok)
    \/ \E c \in C, o \in StoreOutcomes : StoreDone(c, o)
    \/ \E c \in C, ok \in BOOLEAN : CompleteLogDone(c, ok)
    \/ \E c \in C : SleepDone(c)
    \/ \E c \in C : FailLogDone(c)

vars == <<agentVars, serverVars>>

\* The agent under concurrent start() calls, stop() calls and a moving clock
Init == AgentInit(SettingsSet) /\ ServerInit
Next ==
    \/ AgentNext(Calls)
    \/ \E r \in StopArgs : stop(r)
    \/ \E c \in Calls, ok \in BOOLEAN : StopLogDone(c, ok)
    \/ Tick
Spec == Init /\ [][Next]_vars

\* The agent under one start() call, stop() calls and a moving clock
InitRun == AgentInit(RunSettingsSet) /\ ServerInit
NextRun ==
    \/ AgentNext({1})
    \/ \E r \in StopArgs : stop(r)
    \/ \E ok \in BOOLEAN : StopLogDone(1, ok)
    \/ Tick
SpecRun == InitRun /\ [][NextRun]_vars

\* The agent under concurrent start() calls alone: no stop() call is made
NextStart ==
    \/ AgentNext(Calls)
    \/ Tick
SpecStart == Init /\ [][NextStart]_vars

\* The server under concurrent step requests
InitStep == AgentInit({Disabled}) /\ ServerInit
NextStep ==
    \/ \E r \in Requests, a \in StepArgs : StepCall(r, a)
    \/ \E r \in Requests, present \in BOOLEAN : LocalImportDone(r, present)
    \/ \E r \in Requests, ok \in BOOLEAN : TransformersImportDone(r, ok)
    \/ \E r \in Requests, ok \in BOOLEAN : PipelineLoadDone(r, ok)
    \/ \E r \in Requests, out \in Outputs : GenerateDone(r, out)
    \/ \E r \in Requests : GenerateFailed(r)
SpecStep == InitStep /\ [][NextStep]_vars

\* handleAgentStep serving one request, from the body to the response
NextHandle ==
    \/ \E a \in HandleArgs : StepCall(1, a)
    \/ \E body \in InvalidBodies : StepInvalid(1, body)
    \/ \E present \in BOOLEAN : LocalImportDone(1, present)
    \/ \E ok \in BOOLEAN : TransformersImportDone(1, ok)
    \/ \E ok \in BOOLEAN : PipelineLoadDone(1, ok)
    \/ \E out \in Outputs \cup GuardOutputs : GenerateDone(1, out)
    \/ GenerateFailed(1)
    \/ LocalReturned(1)
    \/ LocalThrew(1)
    \/ \E outcome \in FetchOutcomes : GeminiFetchDone(1, outcome)
    \/ GeminiErrorTextDone(1)
    \/ \E json \in GeminiBodies : GeminiJsonDone(1, TRUE, json)
    \/ GeminiJsonDone(1, FALSE, JUndefined)
SpecHandle == InitStep /\ [][NextHandle]_vars

(***************************************************************************)
(* Claims about the run state machine                                      *)
(***************************************************************************)
LoopLive(c) == pc[c] \in LoopPcs

\* C1: of two start() calls that overlap before the first run has reached a
\* terminal state, at most one succeeds and at most one loop is launched.
\* Two calls never both return a status with both their loops launched and
\* neither loop past its first step.
C1_AtMostOneStartSucceeds ==
    ~ \E c, d \in Calls :
        /\ c # d
        /\ result[c] = "ok" /\ result[d] = "ok"
        /\ pc[c] \in {"initLog", "planLog"} /\ pc[d] \in {"initLog", "planLog"}

\* the step in which start() invocation c evaluates its guards
GuardStep(c) == pc[c] = "getSettings" /\ pc'[c] # "getSettings"

\* C2: start() whose state guard runs while the state is planning, acting or
\* observing (agent enabled) fails with "Agent is already running" and leaves
\* the status, the visited set, the last snapshot and the stop flag unchanged.
C2_StartWhileRunningRejected ==
    [][\A c \in Calls :
          (GuardStep(c) /\ settings.enabled /\ status.state \in RunningStates)
          => /\ result'[c] = "already running"
             /\ pc'[c] = "done"
             /\ UNCHANGED <<status, visited, lastSnapshot, stopRequested, goalTerms>>]_vars

C2_Witness ==
    \E c, d \in Calls :
        /\ result[c] = "already running"
        /\ LoopLive(d)
        /\ status.runId = d
        /\ status.state \in RunningStates
        /\ visited # {}

\* C3: once the state of a run is completed, stopped or error it never
\* changes again while the status carries that runId.
C3_TerminalIsFinal ==
    [][(status.state \in TerminalStates /\ status'.runId = status.runId)
       => status'.state = status.state]_vars

\* C4: a loop of the active run that returns after stop() was requested
\* leaves the run in state stopped.
C4_StoppedLoopEndsStopped ==
    [][\A c \in Calls :
          (stopRequested /\ status.runId = c /\ LoopLive(c) /\ pc'[c] = "done")
          => status'.state = "stopped"]_vars

\* C5: stop(r) with r not the id of the active run changes neither the
\* status nor the stop flag.
C5_StopOtherRunIsNoOp ==
    [][\A r \in StopArgs :
          (r # 0 /\ r # status.runId /\ stop(r))
          => UNCHANGED <<status, stopRequested>>]_vars

\* C6: in every reachable state no counter of the run exceeds its budget.
C6_CountersWithinBudgets ==
    /\ OrZero(status.depth) <= settings.budgets.maxDepth
    /\ OrZero(status.actionsTaken) <= settings.budgets.maxActions
    /\ OrZero(status.navigations) <= settings.budgets.navigationBudget
    /\ OrZero(status.clicks) <= settings.budgets.clickBudget

\* C7: with budgets {maxDepth 1, maxActions 5, navigationBudget 1,
\* clickBudget 5} a run makes at most one navigation, no memory node is
\* persisted (or handed to storage) after a second one, and a loop that
\* returns without failure or stop request leaves the run completed.
C7_ScenarioBudgetHalts ==
    settings.budgets = BudgetScenario
    => /\ \A n \in memory : n.navigations <= 1
       /\ loc[1].node.navigations <= 1
       /\ OrZero(status.navigations) <= 1
       /\ OrZero(status.depth) <= 1
       /\ (pc[1] = "done" /\ result[1] = "ok" /\ ~stopRequested /\ status.state # "error")
          => status.state = "completed"

\* a run halted by its budget although the last page still offers a link
C7_Witness ==
    /\ settings = Scenario
    /\ pc[1] = "done" /\ result[1] = "ok" /\ ~stopRequested
    /\ status.state = "completed"
    /\ status.navigations = 1
    /\ \E n \in memory : n.navigations = 1
    /\ lastSnapshot # NoPage
    /\ ~HighRelevance(scoreSnapshot(goalTerms, Pages[lastSnapshot]))
    /\ Candidates(Pages[lastSnapshot].links, visited, settings.allowlistDomains) # {}

\* C8: a failing step of the loop puts the run in state error with lastError
\* the failure message; the loop that failed plans and acts no more and no
\* loop is started in its place.
C8_LoopFailureEndsInError ==
    [][\A c \in Calls :
          /\ (pc[c] # "failLog" /\ pc'[c] = "failLog")
             => /\ status'.state = "error"
                /\ status'.lastError = FailureMessage(pc[c])
                /\ status'.runId = status.runId
          /\ (pc[c] \in {"failLog", "done"}) => pc'[c] \in {"failLog", "done"}]_vars

C8_Witness ==
    \E c \in Calls :
        /\ pc[c] = "failLog"
        /\ status.state = "error"
        /\ status.lastError = "navigate failed"
        /\ status.navigations = 0

\* every term of the list occurs in title + metaDescription + mainText
AllTermsFound(terms, snap) ==
    \A k \in DOMAIN terms : Includes(SnapshotHay(snap), terms[k])

IsOne(rel) == rel[1] = rel[2]

\* the iteration that scored relevance 1.0 goes on to completed, or to error
\* when a log or storage call of it fails: it never pauses and plans again
HitCompletes(c) ==
    /\ (pc[c] = "obsLog" /\ IsOne(loc[c].relevance) /\ pc'[c] # "obsLog")
       => \/ pc'[c] = "store" /\ loc'[c].relevance = loc[c].relevance
          \/ pc'[c] = "failLog"
    /\ (pc[c] = "store" /\ IsOne(loc[c].relevance) /\ pc'[c] # "store")
       => pc'[c] \in {"relLog", "failLog"}
    /\ (pc[c] = "relLog" /\ pc'[c] # "relLog")
       => \/ pc'[c] = "done" /\ status'.state = "completed"
          \/ pc'[c] = "failLog"

IsModelStep(v) ==
    /\ v.kind = "object"
    /\ Prop(v, Txt.done).kind = "boolean"
    /\ ActionSchema(Prop(v, Txt.action))

\* C10: callLocalModel never raises to handleAgentStep, and the value it
\* hands back is an object with a boolean done and a valid action, whatever
\* the on-device backend did.
C10_ResolutionYieldsValidStep ==
    \A r \in Requests :
        /\ req[r].pc # "threw"
        /\ req[r].pc = "returned" => IsModelStep(req[r].raw)

(***************************************************************************)
(* Claims about handleAgentStep                                            *)
(***************************************************************************)
\* the on-device backend has failed in the request served: the adapter is
\* missing, or a load or a generation has ended in the catch block of
\* generateStep
OnDeviceFailed == console \cap {LogAdapterMissing, LogGenerateStepError} # {}

\* the request has an answer
Responded(r) == req[r].pc = "responded"

\* C11: in a request served with a remote credential, callGemini is invoked
\* exactly when the on-device backend has failed and the configured model
\* name matches the remote-provider pattern.
C11_RemoteExactlyOnFailure ==
    \A r \in Requests :
        Responded(r) /\ req[r].apiKey /\ req[r].response.status # 400
            => (req[r].remote <=> OnDeviceFailed /\ prefersRemote(req[r].model))

\* a navigate or open_tab action that names its URL
IsNavigation(action) ==
    /\ Prop(action, Txt.type) \in {JStr(RouteTxt.navigate), JStr(Txt.open_tab)}
    /\ Prop(Prop(action, Txt.data), Txt.url).kind = "string"

UrlOf(action) == Prop(Prop(action, Txt.data), Txt.url).atom

\* the action of the step the planners have produced for the request
Planned(r) == Prop(req[r].raw, Txt.action)

\* an answer with ok=false and done=true that carries no action
Refused(response) == ~response.ok /\ response.done /\ response.action = JUndefined

\* url starts with one of the restricted schemes, in any case of letters
HasRestrictedScheme(url) ==
    \E p \in {RouteTxt.chrome, RouteTxt.chrome_extension, RouteTxt.edge,
               RouteTxt.about_colon, RouteTxt.file} :
        StartsWith(ToLower(url), p)

\* C12: whatever the allowlist and whichever planner produced the step, a
\* navigate or open_tab action whose URL has a restricted scheme is answered
\* with ok=false and done=true and without an action.
C12_RestrictedSchemeRefused ==
    \A r \in Requests :
        Responded(r) /\ IsNavigation(Planned(r)) /\ HasRestrictedScheme(UrlOf(Planned(r)))
            => Refused(req[r].response)

\* the on-device model has produced a chrome:// navigation under the empty
\* allowlist, and the request is answered
C12_Witness ==
    \E r \in Requests :
        /\ Responded(r)
        /\ req[r].allowlistDomains = <<>>
        /\ IsNavigation(Planned(r))
        /\ HasRestrictedScheme(UrlOf(Planned(r)))
        /\ req[r].response.status = 200

\* the hostname of url equals, is a subdomain of, or contains a domain of
\* the list (lower case, blanks and a leading "*." removed)
HostListed(url, list) ==
    \E k \in DOMAIN list :
        \/ safeDomain(url) = normalizeDomain(list[k])
        \/ EndsWith(safeDomain(url), <<".">> \o normalizeDomain(list[k]))
        \/ Includes(safeDomain(url), normalizeDomain(list[k]))

\* C13: under a non-empty allowlist no answer with ok=true carries a
\* navigate or open_tab action to a hostname that is not listed, and a step
\* with such an action, from whichever planner, is answered with ok=false
\* and done=true and without an action.
C13_UnlistedHostRefused ==
    \A r \in Requests :
        Responded(r) /\ req[r].allowlistDomains # <<>>
            => /\ req[r].response.ok /\ IsNavigation(req[r].response.action)
                    => HostListed(UrlOf(req[r].response.action), req[r].allowlistDomains)
               /\ IsNavigation(Planned(r))
                    /\ ~HostListed(UrlOf(Planned(r)), req[r].allowlistDomains)
                    => Refused(req[r].response)

\* the deterministic planner has answered for a failed on-device backend
\* with a navigation to a host that is not listed, and the request is
\* answered
C13_Witness ==
    \E r \in Requests :
        /\ Responded(r)
        /\ req[r].allowlistDomains # <<>>
        /\ OnDeviceFailed
        /\ IsNavigation(Planned(r))
        /\ ~HasRestrictedScheme(UrlOf(Planned(r)))
        /\ ~HostListed(UrlOf(Planned(r)), req[r].allowlistDomains)
        /\ req[r].response.status = 200

\* a planner has produced an output for the request
HasOutput(r) == req[r].raw # JUndefined

\* an object with a boolean done whose action, when it has one, is of a
\* recognized kind with its required fields
AcceptableStep(v) ==
    /\ v.kind = "object"
    /\ Prop(v, Txt.done).kind = "boolean"
    /\ (Prop(v, Txt.action) = JUndefined \/ ActionSchema(Prop(v, Txt.action)))

\* C14: an answer with ok=true is given only to a planner output that has
\* a boolean done and, when it has an action, a valid one; every other
\* output, an object without done among them, is rejected.
C14_AcceptedOnlyWithBooleanDone ==
    \A r \in Requests : Responded(r) /\ req[r].response.ok => AcceptableStep(req[r].raw)

\* C15: a planner output that fails the schema is answered with status 200,
\* ok=false, done=true and a debug excerpt of at most 500 characters, never
\* with a 5xx.
C15_InvalidShapeIsNonFatal ==
    \A r \in Requests :
        Responded(r) /\ HasOutput(r) /\ ~ModelStepSchema(req[r].raw)
            => /\ req[r].response.status = 200
               /\ ~req[r].response.ok
               /\ req[r].response.done
               /\ req[r].response.debug.kind = "string"
               /\ Len(req[r].response.debug.atom) <= 500

\* an output longer than 500 characters has failed the schema and has been
\* answered with an excerpt of 500 characters
C15_Witness ==
    \E r \in Requests :
        /\ Responded(r)
        /\ req[r].raw.kind = "string"
        /\ Len(req[r].raw.atom) > 500
        /\ Len(req[r].response.debug.atom) = 500

\* C16: when the on-device backend has failed, the model name matches the
\* remote-provider pattern and no credential is configured, the request is
\* answered with the 500 response that names the missing credential.
C16_MissingCredentialReported ==
    \A r \in Requests :
        /\ Responded(r)
        /\ req[r].response.status # 400
        /\ OnDeviceFailed
        /\ prefersRemote(req[r].model)
        /\ ~req[r].apiKey
        => req[r].response = MissingKeyResponse

(***************************************************************************)
(* Claims about the on-device pipeline                                     *)
(***************************************************************************)
\* C17: the pipeline a call generates with has been loaded for the model
\* the call requested, or for the default model.
C17_PipelineOfRequestedModel ==
    \A r \in Requests :
        req[r].pc = "generate" => req[r].pipe \in {modelRequested(r), DefaultModel}

\* the load attempt of request r ends in failure in this step: the request
\* was importing the transformers module or loading a pipeline, and has
\* neither gone on to load nor to generate with what it was loading
LoadAttemptFails(r) ==
    /\ req[r].pc \in {"importTransformers", "load"}
    /\ req'[r] # req[r]
    /\ ~(req[r].pc = "importTransformers" /\ req'[r].pc = "load"
            /\ req'[r].loading = req[r].loading)
    /\ ~(req[r].pc = "load" /\ req'[r].pc = "generate")

\* the call has handed back what the deterministic planner gives for it
\* (the safe finish when the planner throws), without another load
FallsThrough(r) ==
    /\ req'[r].pc = "returned"
    /\ req'[r].raw = OrSafeFinish(deterministicPlanner(ServerGoals[req[r].goal], req[r].step))

\* C18: a failed load of a model other than the default one is followed by
\* one attempt with the default model; a failed load of the default model,
\* the second attempt included, ends the call with the deterministic
\* planner, so that a call makes at most two attempts.
C18_OneRetryWithDefault ==
    [][\A r \in Requests :
          LoadAttemptFails(r) =>
              IF req[r].loading # DefaultModel
              THEN /\ req[r].loading = modelRequested(r)
                   /\ req'[r].pc = "importTransformers"
                   /\ req'[r].loading = DefaultModel
              ELSE FallsThrough(r)]_vars

\* a call for another model than the default one has ended with the
\* deterministic planner without ever generating: both loads have failed
C18_Witness ==
    \E r \in Requests :
        /\ req[r].pc = "returned"
        /\ modelRequested(r) # DefaultModel
        /\ req[r].pipe = ""
        /\ LogGenerateStepError \in console
        /\ LogAdapterMissing \notin console

(***************************************************************************)
(* Claims about deterministicPlanner                                       *)
(***************************************************************************)
\* the step callLocalModel has returned for request r is the one
\* deterministicPlanner has made: the adapter was found, and generateStep
\* has called the planner after a failure or an output without JSON
PlannerAnswered(r) ==
    /\ req[r].pc = "returned"
    /\ console \cap {LogGenerateStepError, LogParseFailed} # {}
    /\ console \cap {LogAdapterMissing, LogPlannerFailed} = {}

GoalOf(r) == Trim(ServerGoals[req[r].goal])

\* text begins with http:// or https://, in any case of letters
HasScheme(text) ==
    StartsWith(ToLower(text), Txt.http) \/ StartsWith(ToLower(text), Txt.https)

\* the match with https:// before it when it has no scheme
Normalized(text) == IF HasScheme(text) THEN text ELSE Txt.https \o text

TypeOf(step) == Prop(Prop(step, Txt.action), Txt.type)
DataOf(step, key) == Prop(Prop(Prop(step, Txt.action), Txt.data), key)
DoneOf(step) == Prop(step, Txt.done)

C20_AmazonScenario ==
    \A r \in Requests :
        PlannerAnswered(r) /\ GoalOf(r) = Txt.find_wireless_mouse_on_amazo =>
            CASE req[r].step = 0 ->
                    /\ TypeOf(req[r].raw) = JStr(Txt.open_tab)
                    /\ DataOf(req[r].raw, Txt.url).kind = "string"
                    /\ Includes(DataOf(req[r].raw, Txt.url).atom, Txt.amazon)
                    /\ Includes(DataOf(req[r].raw, Txt.url).atom, Txt.wirelesspct20mouse)
              [] req[r].step = 1 ->
                    /\ TypeOf(req[r].raw) = JStr(Txt.click)
                    /\ DataOf(req[r].raw, Txt.selector).kind = "string"
                    /\ Includes(DataOf(req[r].raw, Txt.selector).atom, Txt.s_search_result)
              [] req[r].step = 2 -> TypeOf(req[r].raw) = JStr(Txt.extract)
              [] OTHER -> TypeOf(req[r].raw) = JStr(Txt.finish)

(***************************************************************************)
(* Claims about the states of a run                                        *)
(***************************************************************************)
\* the edges of the run state machine
Edges ==
    { <<"idle", "planning">>, <<"planning", "acting">>, <<"acting", "observing">>,
      <<"observing", "planning">>, <<"observing", "completed">>,
      <<"observing", "stopped">>, <<"observing", "error">> }

\* a loop passes its while test and plans an action in this step: it calls
\* transition("planning") and then transition("acting")
PlansAction == \E c \in Calls : pc[c] # "planLog" /\ pc'[c] = "planLog"

\* the changes of status.state the transition calls of this step make
StateChanges ==
    IF PlansAction THEN { <<status.state, "planning">>, <<"planning", "acting">> }
    ELSE { <<status.state, status'.state>> }

\* the status belongs to the same run before and after the step
SameRun == status'.runId # NoRun /\ status'.runId = status.runId

\* the step begins a run: start() installs the status of a new run
NewRun == status'.runId # NoRun /\ status'.runId # status.runId

\* C21: a run begins in planning (idle->planning), and every change of its
\* state follows one of the edges planning->acting, acting->observing,
\* observing->planning, observing->completed, observing->stopped,
\* observing->error.
C21_StateFollowsEdges ==
    [][/\ NewRun => <<"idle", status'.state>> \in Edges
       /\ SameRun => \A e \in StateChanges : e[1] # e[2] => e \in Edges]_vars

(* Claims about the navigations of a run *)
\* call c has issued browserController.navigate and awaits its outcome
NavigateIssued(c) == pc[c] \in {"initNav", "nav"}

\* the URL of the navigate call that call c awaits
NavigateUrl(c) == IF pc[c] = "initNav" THEN loc[c].startUrl ELSE loc[c].action.url

\* start() returns in this step and loop() is entered with a startUrl
LoopEntered(c) ==
    /\ pc[c] = "startLog"
    /\ result'[c] = "ok"
    /\ StartUrlGiven(args[c].startUrl)

\* C22: with a non-empty allowlist no navigate call is ever issued for a URL
\* whose host the allowlist does not permit, the startUrl navigation included,
\* and a startUrl outside the allowlist ends the run in error before any
\* navigation.
C22_NavigateOnlyListed ==
    [][\A c \in Calls :
         settings.allowlistDomains # <<>> =>
           /\ NavigateIssued(c)' =>
                HostListed(Urls[NavigateUrl(c)'], settings.allowlistDomains)
           /\ LoopEntered(c)
                /\ ~HostListed(Urls[args[c].startUrl], settings.allowlistDomains) =>
                /\ status'.state = "error"
                /\ pc'[c] = "failLog"]_vars

\* a planned navigation to a listed URL is in flight, chosen from a page that
\* also links to a host outside the allowlist
C22_Witness ==
    /\ settings.allowlistDomains # <<>>
    /\ pc[1] = "nav"
    /\ lastSnapshot # NoPage
    /\ \E k \in DOMAIN Pages[lastSnapshot].links :
          LET href == Pages[lastSnapshot].links[k].href
          IN /\ Urls[href] # <<>>
             /\ ~HostListed(Urls[href], settings.allowlistDomains)

\* the step ends the act phase of a navigate action of call c: the next
\* await of the loop is the extractDomSnapshot of the observe phase
ActEnds(c) ==
    /\ pc[c] \in {"planLog", "nav", "blockedLog"}
    /\ loc[c].action.type = "navigate"
    /\ pc'[c] = "extract"

\* the step takes the loop of call c past its initial navigation
InitialNavigationEnds(c) ==
    /\ pc[c] \in {"initLog", "initNav"}
    /\ pc'[c] \notin {"initLog", "initNav", "failLog"}

\* C23: with dryRun no navigate call is issued, for the startUrl or for a
\* planned action, and in both modes the act phase advances navigations and
\* depth by one and adds the action's URL to the visited set, and the initial
\* navigation advances navigations by one.
C23_DryRunCountsButNeverNavigates ==
    [][\A c \in Calls :
         /\ settings.dryRun => ~NavigateIssued(c)'
         /\ ActEnds(c) =>
              /\ settings.dryRun <=> pc[c] = "planLog"
              /\ status'.navigations = OrZero(status.navigations) + 1
              /\ status'.depth = OrZero(status.depth) + 1
              /\ visited' = visited \cup {loc[c].action.url}
         /\ InitialNavigationEnds(c) =>
              /\ settings.dryRun <=> pc[c] = "initLog"
              /\ status'.navigations = OrZero(status.navigations) + 1
              /\ status'.depth = status.depth
              /\ visited' = visited]_vars

\* a dry run that was started with a startUrl has planned and counted a
\* navigate action and is observing the page
C23_Witness ==
    /\ settings.dryRun
    /\ pc[1] = "extract"
    /\ loc[1].action.type = "navigate"
    /\ loc[1].startUrl # NoUrl
    /\ status.navigations = 2
    /\ loc[1].action.url \in visited

(* Claims about the end of a run *)
\* the positions at which a call waits for a collaborator (or the timer)
AwaitPcs == LoopPcs \cup {"getSettings", "ensureTab", "startLog", "failLog"}

\* call c is resumed: it leaves the await it is at, for another position.
\* Every step of start() and loop() in AgentNext and StopLogDone is such a
\* step, and at every await position one of them is enabled.
Resumed(c) ==
    /\ pc[c] \in AwaitPcs
    /\ \E q \in (AwaitPcs \cup {"done"}) \ {pc[c]} : pc' = [pc EXCEPT ![c] = q]

\* Every collaborator call returns or fails, and the event loop resumes every
\* continuation that is ready: the call does not wait at one await for ever
SpecRunFair == SpecRun /\ WF_pc(Resumed(1))

\* start() has returned the status of the run it launched
Launched(c) == result[c] = "ok"

\* the loop of call c has returned and the run rests in a terminal state
Ended(c) == pc[c] = "done" /\ status.state \in TerminalStates

\* C24: every run that a successful start() launches reaches completed,
\* stopped or error, and by then its loop has gone at most maxActions times
\* through the act and observe phases: the count of actions taken, and the
\* number of memory records written, never pass maxActions.
C24_RunEndsWithinBudget ==
    /\ [](/\ OrZero(status.actionsTaken) <= settings.budgets.maxActions
          /\ Cardinality(memory) <= settings.budgets.maxActions)
    /\ \A c \in {1} : Launched(c) ~> Ended(c)

\* a run has completed because its maxActions iterations were used up, with
\* the other budgets not reached
C24_Witness ==
    /\ Ended(1)
    /\ status.state = "completed"
    /\ status.actionsTaken = settings.budgets.maxActions
    /\ Cardinality(memory) = settings.budgets.maxActions
    /\ budgetsExceeded(status, settings.budgets) = "maxActions reached"

(* Claims about the planned action *)
\* the href is a fragment alone, like "#top"
FragmentOnly(href) == href # <<>> /\ href[1] = "#"

\* the links of the last snapshot
LastLinks == Pages[lastSnapshot].links

\* the candidates as the claim lists them: positions in snapshot order
ClaimedCandidates ==
    {k \in DOMAIN LastLinks :
        /\ Urls[LastLinks[k].href] # <<>>
        /\ ~FragmentOnly(Urls[LastLinks[k].href])
        /\ LastLinks[k].href \notin visited
        /\ \/ settings.allowlistDomains = <<>>
           \/ HostListed(Urls[LastLinks[k].href], settings.allowlistDomains)}

\* the score as the claim gives it, in quarters: one per goal term that
\* occurs in text + href, a quarter for a non-empty anchor text
ClaimedScore(k) ==
    LET hay == ToLower(LastLinks[k].text \o <<" ">> \o Urls[LastLinks[k].href])
    IN 4 * Cardinality({i \in DOMAIN goalTerms : Includes(hay, goalTerms[i])})
       + (IF Trim(LastLinks[k].text) # <<>> THEN 1 ELSE 0)

\* k is the first in snapshot order of the candidates of the highest score
FirstOfBest(k) ==
    /\ k \in ClaimedCandidates
    /\ \A j \in ClaimedCandidates :
          \/ ClaimedScore(k) > ClaimedScore(j)
          \/ ClaimedScore(k) = ClaimedScore(j) /\ k <= j

\* C25: with a prior snapshot, the planned action is a navigate to the first
\* in snapshot order of the highest-scoring candidates (links whose href is
\* non-empty, not fragment-only, not visited and allowlist-permitted), and no
\* action is planned exactly when there is no candidate.
C25_PlansFirstBestCandidate ==
    \A c \in Calls :
        lastSnapshot # NoPage =>
            /\ pc[c] = "planLog" =>
                  /\ loc[c].action.type = "navigate"
                  /\ \E k \in DOMAIN LastLinks :
                        FirstOfBest(k) /\ loc[c].action.url = LastLinks[k].href
            /\ pc[c] = "noActLog" => ClaimedCandidates = {}

(* Claims about the memory records and the loops of an agent *)
\* the id agent_<runId>_<step> of a memory node, by its two parts
NodeId(n) == <<n.runId, n.step>>

\* the loop of call c persists the memory record of its iteration:
\* storeStepMemory returns with both storage writes done
Stores(c) == pc[c] = "store" /\ pc'[c] \in {"relLog", "sleep"}

\* C26: an iteration that reaches the observe phase persists exactly one
\* memory record, and no record written before carries the same node id,
\* whatever start() and stop() calls interleave with the loop.
C26_OneRecordPerNodeId ==
    [][\A c \in Calls :
         Stores(c) =>
            /\ \A n \in memory : NodeId(n) # NodeId(loc[c].node)
            /\ memory' = memory \cup {loc[c].node}]_vars

\* C27: at most one loop execution is live per agent instance: no two
\* start() calls have loops that both still await a collaborator and will
\* go on to read or write the status, the visited set, the last snapshot or
\* the stop flag.
C27_AtMostOneLoopLive ==
    \A c, d \in Calls : LoopLive(c) /\ LoopLive(d) => c = d

(* Claims about the cache of the on-device pipeline *)
\* the load of request r succeeds in this step: pipeline(...) has resolved
\* and the request goes on to generate
LoadSucceeds(r) == req[r].pc = "load" /\ req'[r].pc = "generate"

\* C28: under concurrent generateStep calls the process-wide pipeline is
\* loaded successfully at most once, and a cached pipeline is never reset to
\* null nor overwritten by the outcome of another call's load.
C28_PipelineLoadedOnce ==
    [][/\ \A r \in Requests : LoadSucceeds(r) => generationPipeline = NoPipeline
       /\ generationPipeline # NoPipeline => generationPipeline' = generationPipeline]_vars

(* Claims about the visited set *)
\* the loop of call c issues the navigate call of a planned action
PlannedNavigateIssued(c) == pc[c] # "nav" /\ pc'[c] = "nav"

\* C29: within a run the visited set only grows and holds every URL the run
\* has navigated to, the startUrl included, and no navigate call is issued
\* for a URL the run has already navigated to.
C29_NeverNavigatesTwice ==
    [][\A c \in Calls :
         /\ SameRun => visited \subseteq visited'
         /\ InitialNavigationEnds(c) => loc[c].startUrl \in visited'
         /\ PlannedNavigateIssued(c) =>
               loc'[c].action.url \notin visited \cup {loc[c].startUrl}]_vars

(* Claims about a start() that fails *)
\* start() call c has failed
StartFailed(c) == result[c] \notin {"none", "ok"}

\* no start() call is under way and no loop is running
AtRest == \A c \in Calls : pc[c] \in {"idle", "done"}

\* C30: a start() that fails (agent disabled, already running, tab not
\* resolved, log write failing) does not leave the agent in a non-terminal
\* state with no loop running: once it has failed and nothing else runs, the
\* state is idle or terminal, so that a later start() can pass the guard.
C30_FailedStartLeavesStartable ==
    (\E c \in Calls : StartFailed(c)) /\ AtRest
        => status.state \in {"idle"} \cup TerminalStates

(* Claims about the end of the planner's flows *)
\* C31: for every goal the deterministic planner reaches finish with
\* done=true at a step no later than 3 and answers finish at every later
\* step, the generic web-search fallback included: from step 3 on its answer
\* is finish with done=true.
C31_PlannerFinishesByStep3 ==
    \A r \in Requests :
        PlannerAnswered(r) /\ req[r].step >= 3 =>
            /\ TypeOf(req[r].raw) = JStr(Txt.finish)
            /\ DoneOf(req[r].raw) = JBool(TRUE)

====
